---- MODULE Spec2Model ----
(***************************************************************************)
(* DigitalCart storage layer: the IStorage contract, its two backends      *)
(* (FirebaseStorage over a document store, DatabaseStorage over the        *)
(* relational schema) and the HTTP routes that sit on top of it.           *)
(*                                                                         *)
(* Every storage call is applied to both backends in lock step, starting   *)
(* from two empty stores, so that each state holds the document store, the *)
(* relational store and what the last call returned from each of them.     *)
(***************************************************************************)
EXTENDS Integers, Sequences, FiniteSets, TLC

(***************************************************************************)
(* Bounds of the model.                                                    *)
(***************************************************************************)
\* how many ids generateId() / gen_random_uuid() hand out in one behaviour
MaxIds == 5
\* how far the wall clock advances
MaxTime == 2
\* how many coupons are stored at once where the coupon routes are explored
MaxCoupons == 1
\* the ids the catalog calls draw
MaxCatalogIds == 3
\* the families of kinds a listing state holds
MaxFamilies == 1
\* how many entities of one kind a listing state holds
MaxListed == 3
\* how many users are created on the storage contract
MaxUsers == 1
\* how many owners, and how many coupons and customers in all, the
\* owner-scoped lookups are explored with
MaxOwners == 2
MaxOwned == 2
\* the ids drawn where pages, orders and order items are explored, and how
\* many entities of one kind are stored there
MaxOrderIds == 8
MaxOfKind == 2
MaxBuyers == 1

(***************************************************************************)
(* Values.  An entity is a function from field names to values; a field    *)
(* that a JS object does not have is a field outside its DOMAIN.           *)
(***************************************************************************)
\* JS null / SQL NULL in a number-, id- or time-valued field
Null == -1
\* an own property whose value is the JS value undefined
Undefined == -2
\* an id string that is not UUID-shaped, such as "nonexistent-id"
NonUuidId == 0
\* the ids the generators hand out, in the order they are handed out
Ids == 1 .. MaxIds
\* a well-formed UUID that no generator ever handed out
GhostId == MaxIds + MaxOrderIds + 1
\* the id columns are of type uuid: a comparison or insert with a string that
\* is not UUID-shaped is rejected by the relational engine (SQLSTATE 22P02)
IsUuid(id) == id # NonUuidId
\* Firestore returns a stored Date as a Timestamp object, not as a Date
TimestampTag == 100
Timestamp(t) == t + TimestampTag
IsTimestamp(v) == v >= TimestampTag

\* booleans are held as numbers so that null and undefined can stand in their place
True == 1
False == 0

Has(obj, f) == f \in DOMAIN obj
\* obj.f, where reading a missing property gives undefined
Prop(obj, f) == IF Has(obj, f) THEN obj[f] ELSE Undefined
\* { ...obj, f: v }
With(obj, f, v) == (f :> v) @@ obj
\* { ...a, ...b }
Spread(a, b) == b @@ a
\* v ?? d
Coalesce(v, d) == IF v = Null \/ v = Undefined THEN d ELSE v
\* JS truthiness of a number or boolean: undefined, null, 0 and false are falsy
Truthy(v) == v # Undefined /\ v # Null /\ v # 0
\* JS truthiness of an object reference (a Date, a Timestamp): only null and
\* undefined are falsy, the Date of the epoch is truthy
TruthyObj(v) == v # Undefined /\ v # Null

\* what a call returns: a value, the absent value (undefined), or a thrown error
\* a returned entity, a returned list and the boolean a delete returns
Ok(v) == [tag |-> "ok", val |-> v]
Listing(s) == [tag |-> "ok", list |-> s]
Deleted(v) == [tag |-> "ok", deleted |-> v]
Absent == [tag |-> "absent"]
Err(e) == [tag |-> "error", err |-> e]
IsOk(r) == r.tag = "ok"
IsErr(r) == r.tag = "error"
\* what a storage method hands back: the store after the call and the result
Out(db, res) == [db |-> db, res |-> res]

\* the sequences that hold each element of S once
RECURSIVE Perms(_)
Perms(S) ==
    IF S = {} THEN {<<>>}
    ELSE UNION {{<<x>> \o p : p \in Perms(S \ {x})} : x \in S}
\* ORDER BY f DESC / orderBy(f, "desc"): every order of S the engine may return
\* (rows with equal keys come in any order)
OrderByDesc(S, f) ==
    {s \in Perms(S) : \A i \in 1 .. Len(s) - 1 : s[i][f] >= s[i + 1][f]}

(***************************************************************************)
(* toDate and serializeForFirestore (firebase-storage.ts).                 *)
(***************************************************************************)
toDate(timestamp) ==
    IF ~TruthyObj(timestamp) THEN Null
    ELSE IF IsTimestamp(timestamp) THEN timestamp - TimestampTag
    ELSE timestamp

\* drops the own properties whose value is undefined
serializeForFirestore(obj) ==
    [k \in {f \in DOMAIN obj : obj[f] # Undefined} |-> obj[k]]

(***************************************************************************)
(* The relational schema (shared/schema.ts) and the engine's rules for it. *)
(* The columns kept are the ids, the owner and parent references, the      *)
(* timestamps, the numeric and boolean columns with a default, the prices  *)
(* of products and order items, the slug of a page and the columns the     *)
(* routes read; the remaining columns (names, texts, statuses) are stored  *)
(* and returned untouched.                                                 *)
(***************************************************************************)
Tables ==
    {"users", "products", "checkoutPages", "coupons", "customers", "orders",
     "orderItems", "abandonedCarts", "emailTemplates", "pixelEvents"}

Columns(tbl) ==
    CASE tbl = "users" -> {"id", "email"}
      [] tbl = "products" ->
            {"id", "userId", "price", "downloadLimit", "isActive", "createdAt"}
      [] tbl = "checkoutPages" -> {"id", "userId", "productId", "slug", "createdAt"}
      [] tbl = "coupons" ->
            {"id", "userId", "code", "usageLimit", "usedCount", "expiresAt",
             "isActive", "createdAt"}
      [] tbl = "customers" -> {"id", "userId", "email", "createdAt"}
      [] tbl = "orders" -> {"id", "userId", "customerId", "createdAt"}
      [] tbl = "orderItems" ->
            {"id", "orderId", "productId", "price", "downloadCount", "tokenExpiresAt"}
      [] tbl = "abandonedCarts" ->
            {"id", "userId", "checkoutPageId", "recoveryEmailSent", "recoveredAt",
             "createdAt"}
      [] tbl = "emailTemplates" -> {"id", "userId", "isActive"}
      [] tbl = "pixelEvents" -> {"id", "userId", "eventTime", "createdAt"}

\* .default(...) / .defaultNow() of a column; a column without one defaults to NULL
DownloadLimitDefault == 5
ColumnDefault(tbl, col, id, t) ==
    CASE col = "id" -> id
      [] col = "createdAt" -> t
      [] col = "downloadLimit" -> DownloadLimitDefault
      [] col = "isActive" -> True
      [] col = "usedCount" -> 0
      [] col = "downloadCount" -> 0
      [] col = "recoveryEmailSent" -> False
      [] OTHER -> Null

\* .notNull() and primary-key columns
NotNullColumns(tbl) ==
    Columns(tbl) \cap {"id", "userId", "productId", "customerId", "orderId",
                       "checkoutPageId", "email", "code", "eventTime", "price",
                       "slug"}

\* columns of type uuid
UuidColumns(tbl) ==
    Columns(tbl) \cap {"id", "userId", "productId", "customerId", "orderId",
                       "checkoutPageId"}

\* .references(() => t.id): <<table, column, referenced table>>
ForeignKeys ==
    {<<"products", "userId", "users">>,
     <<"checkoutPages", "userId", "users">>,
     <<"checkoutPages", "productId", "products">>,
     <<"coupons", "userId", "users">>,
     <<"customers", "userId", "users">>,
     <<"orders", "userId", "users">>,
     <<"orders", "customerId", "customers">>,
     <<"orderItems", "orderId", "orders">>,
     <<"orderItems", "productId", "products">>,
     <<"abandonedCarts", "userId", "users">>,
     <<"abandonedCarts", "checkoutPageId", "checkoutPages">>,
     <<"emailTemplates", "userId", "users">>,
     <<"pixelEvents", "userId", "users">>}

\* .unique() columns: <<table, column>>
UniqueColumns == {<<"users", "email">>}

PgRowIds(db, tbl) == {r.id : r \in db[tbl]}

\* the error the engine raises for `row` taking the place of the rows `old` in
\* tbl, or "" when the row satisfies the schema
PgRowError(db, tbl, row, old) ==
    IF \E c \in UuidColumns(tbl) : row[c] # Null /\ ~IsUuid(row[c])
        THEN "invalid uuid"
    ELSE IF \E c \in NotNullColumns(tbl) : row[c] = Null
        THEN "not null violation"
    ELSE IF \E r \in db[tbl] \ old : r.id = row.id
        THEN "unique violation"
    ELSE IF \E u \in UniqueColumns :
                /\ u[1] = tbl
                /\ \E r \in db[tbl] \ old : r[u[2]] = row[u[2]]
        THEN "unique violation"
    ELSE IF \E k \in ForeignKeys :
                /\ k[1] = tbl
                /\ row[k[2]] # Null
                /\ row[k[2]] \notin PgRowIds(db, k[3])
        THEN "foreign key violation"
    ELSE ""

\* some row of another table still references the row `id` of tbl
PgReferenced(db, tbl, id) ==
    \E k \in ForeignKeys : k[3] = tbl /\ \E r \in db[k[1]] : r[k[2]] = id

\* db.insert(tbl).values(values).returning(): a column takes the value given
\* for it, and its default when values has no such key or holds undefined
PgInsert(db, tbl, values, id, t) ==
    LET row == [c \in Columns(tbl) |->
                    IF Prop(values, c) # Undefined THEN values[c]
                    ELSE ColumnDefault(tbl, c, id, t)]
        e == PgRowError(db, tbl, row, {})
    IN  IF e # "" THEN Out(db, Err(e))
        ELSE Out([db EXCEPT ![tbl] = @ \cup {row}], Ok(row))

\* db.select().from(tbl).where(eq(tbl.id, id)), destructured as [row]
PgSelectById(db, tbl, id) ==
    IF ~IsUuid(id) THEN Err("invalid uuid")
    ELSE IF \E r \in db[tbl] : r.id = id
        THEN Ok(CHOOSE r \in db[tbl] : r.id = id)
    ELSE Absent

\* db.update(tbl).set(data).where(eq(tbl.id, id)).returning(), destructured
PgUpdate(db, tbl, id, data) ==
    LET set == [c \in {k \in DOMAIN data \cap Columns(tbl) : data[k] # Undefined}
                    |-> data[c]]
    IN  IF DOMAIN set = {} THEN Out(db, Err("No values to set"))
        ELSE IF ~IsUuid(id) THEN Out(db, Err("invalid uuid"))
        ELSE IF ~\E r \in db[tbl] : r.id = id THEN Out(db, Absent)
        ELSE LET old == CHOOSE r \in db[tbl] : r.id = id
                 row == set @@ old
                 e == PgRowError(db, tbl, row, {old})
             IN  IF e # "" THEN Out(db, Err(e))
                 ELSE IF row.id # id /\ PgReferenced(db, tbl, id)
                     THEN Out(db, Err("foreign key violation"))
                 ELSE Out([db EXCEPT ![tbl] = (@ \ {old}) \cup {row}], Ok(row))

\* db.delete(tbl).where(eq(tbl.id, id)).returning(); result.length > 0
PgDelete(db, tbl, id) ==
    IF ~IsUuid(id) THEN Out(db, Err("invalid uuid"))
    ELSE IF ~\E r \in db[tbl] : r.id = id THEN Out(db, Deleted(False))
    ELSE IF PgReferenced(db, tbl, id) THEN Out(db, Err("foreign key violation"))
    ELSE Out([db EXCEPT ![tbl] = {r \in @ : r.id # id}], Deleted(True))

\* db.select().from(tbl).where(eq(tbl.userId, userId)): the rows, unordered
PgSelectByUser(db, tbl, userId) == {r \in db[tbl] : r.userId = userId}

(***************************************************************************)
(* The document store.  A collection maps document ids to document data;   *)
(* the store has no schema, no defaults and no foreign keys.               *)
(***************************************************************************)
Collections == Tables
\* the fields whose values are Dates; the SDK stores a Date as a Timestamp
DateFields == {"createdAt", "expiresAt", "eventTime", "recoveredAt", "tokenExpiresAt"}
FsEncode(data) ==
    [k \in DOMAIN data |->
        IF k \in DateFields /\ data[k] # Null /\ ~IsTimestamp(data[k])
        THEN Timestamp(data[k]) ELSE data[k]]

\* collection(coll).doc(id).get(): .exists
FsExists(db, coll, id) == id \in DOMAIN db[coll]
\* collection(coll).doc(id).set(data)
FsSet(db, coll, id, data) ==
    [db EXCEPT ![coll] = (id :> FsEncode(data)) @@ @]
\* docRef.update(data): the fields of data replace those of the document
FsUpdate(db, coll, id, data) ==
    [db EXCEPT ![coll] = (id :> (FsEncode(data) @@ @[id])) @@ @]
\* docRef.delete()
FsDelete(db, coll, id) ==
    [db EXCEPT ![coll] = [k \in DOMAIN @ \ {id} |-> @[k]]]
\* a query snapshot's documents, each with its id and data()
FsDocs(db, coll) == {[id |-> k, data |-> db[coll][k]] : k \in DOMAIN db[coll]}
\* .where(f, "==", v)
FsWhere(docs, f, v) == {d \in docs : Has(d.data, f) /\ d.data[f] = v}
\* a variant of the ordering below that returns the documents oldest first
FsOrderByAsc(docs, f) ==
    LET with == {d \in docs : Has(d.data, f)}
    IN  {s \in Perms(with) :
            \A i \in 1 .. Len(s) - 1 : s[i].data[f] <= s[i + 1].data[f]}
\* .orderBy(f, "desc"): documents without the field are left out; every order
\* the store may return
FsOrderByDesc(docs, f) ==
    LET with == {d \in docs : Has(d.data, f)}
    IN  {s \in Perms(with) :
            \A i \in 1 .. Len(s) - 1 : s[i].data[f] >= s[i + 1].data[f]}
\* .limit(n) of an ordered snapshot
Limit(s, n) == IF Len(s) <= n THEN s ELSE SubSeq(s, 1, n)

\* { ...data, id: doc.id, createdAt: toDate(data.createdAt) }
WithIdCreatedAt(doc) ==
    With(With(doc.data, "id", doc.id), "createdAt", toDate(Prop(doc.data, "createdAt")))
\* the same with expiresAt: toDate(data.expiresAt), as the coupon reads do
WithIdCreatedAtExpiresAt(doc) ==
    With(WithIdCreatedAt(doc), "expiresAt", toDate(Prop(doc.data, "expiresAt")))
\* { id: doc.id, ...doc.data() }: an id field inside the data overrides doc.id
IdThenData(doc) == Spread([id |-> doc.id], doc.data)
FsDoc(db, coll, id) == [id |-> id, data |-> db[coll][id]]
MapSeq(s, F(_)) == [i \in 1 .. Len(s) |-> F(s[i])]

(***************************************************************************)
(* FirebaseStorage (firebase-storage.ts, lines 54-736).  A read that may   *)
(* return any of several documents or orders is the set of its results.    *)
(***************************************************************************)
FbGetUser(db, id) ==
    IF ~FsExists(db, "users", id) THEN Absent
    ELSE Ok(IdThenData(FsDoc(db, "users", id)))

\* .where("email", "==", email).limit(1): docs[0] is any of the matches
FbGetUserByEmail(db, email) ==
    LET snapshot == FsWhere(FsDocs(db, "users"), "email", email)
    IN  IF snapshot = {} THEN {Absent}
        ELSE {Ok(IdThenData(doc)) : doc \in snapshot}

FbCreateUser(db, id, user) ==
    LET userWithDefaults == With(user, "id", id)
    IN  Out(FsSet(db, "users", id, serializeForFirestore(userWithDefaults)),
            Ok(userWithDefaults))

FbGetProducts(db, userId) ==
    {Listing(MapSeq(s, WithIdCreatedAt)) :
        s \in FsOrderByDesc(FsWhere(FsDocs(db, "products"), "userId", userId),
                            "createdAt")}

FbGetProduct(db, id) ==
    IF ~FsExists(db, "products", id) THEN Absent
    ELSE Ok(WithIdCreatedAt(FsDoc(db, "products", id)))

FbCreateProduct(db, id, t, product) ==
    LET productWithDefaults ==
            With(With(With(With(product, "id", id), "createdAt", t),
                "downloadLimit", Coalesce(Prop(product, "downloadLimit"),
                                          DownloadLimitDefault)),
                "isActive", Coalesce(Prop(product, "isActive"), True))
    IN  Out(FsSet(db, "products", id, serializeForFirestore(productWithDefaults)),
            Ok(productWithDefaults))

FbUpdateProduct(db, id, data) ==
    IF ~FsExists(db, "products", id) THEN Out(db, Absent)
    ELSE LET after == FsUpdate(db, "products", id, serializeForFirestore(data))
         IN  Out(after, Ok(WithIdCreatedAt([id |-> id, data |-> after["products"][id]])))

FbDeleteProduct(db, id) ==
    IF ~FsExists(db, "products", id) THEN Out(db, Deleted(False))
    ELSE Out(FsDelete(db, "products", id), Deleted(True))

\* the product attached to a page: the product, or the absent value
Attached(r) == IF IsOk(r) THEN r.val ELSE Absent

FbGetCheckoutPages(db, userId) ==
    {Listing(MapSeq(s, LAMBDA doc :
                With(WithIdCreatedAt(doc), "product",
                     Attached(FbGetProduct(db, Prop(doc.data, "productId")))))) :
        s \in FsOrderByDesc(FsWhere(FsDocs(db, "checkoutPages"), "userId", userId),
                            "createdAt")}

FbGetCheckoutPage(db, id) ==
    IF ~FsExists(db, "checkoutPages", id) THEN Absent
    ELSE LET page == WithIdCreatedAt(FsDoc(db, "checkoutPages", id))
         IN  Ok(With(page, "product",
                     Attached(FbGetProduct(db, Prop(page, "productId")))))

\* .where("slug", "==", slug).limit(1): docs[0] is any of the matches
FbGetCheckoutPageBySlug(db, slug) ==
    LET snapshot == FsWhere(FsDocs(db, "checkoutPages"), "slug", slug)
    IN  IF snapshot = {} THEN {Absent}
        ELSE {Ok(With(WithIdCreatedAt(doc), "product",
                      Attached(FbGetProduct(db, Prop(doc.data, "productId"))))) :
                doc \in snapshot}

FbCreateCheckoutPage(db, id, t, page) ==
    LET pageWithDefaults == With(With(page, "id", id), "createdAt", t)
    IN  Out(FsSet(db, "checkoutPages", id, serializeForFirestore(pageWithDefaults)),
            Ok(pageWithDefaults))

FbUpdateCheckoutPage(db, id, data) ==
    IF ~FsExists(db, "checkoutPages", id) THEN Out(db, Absent)
    ELSE LET after == FsUpdate(db, "checkoutPages", id, serializeForFirestore(data))
         IN  Out(after,
                 Ok(WithIdCreatedAt([id |-> id, data |-> after["checkoutPages"][id]])))

FbDeleteCheckoutPage(db, id) ==
    IF ~FsExists(db, "checkoutPages", id) THEN Out(db, Deleted(False))
    ELSE Out(FsDelete(db, "checkoutPages", id), Deleted(True))

FbGetCoupons(db, userId) ==
    {Listing(MapSeq(s, WithIdCreatedAtExpiresAt)) :
        s \in FsOrderByDesc(FsWhere(FsDocs(db, "coupons"), "userId", userId),
                            "createdAt")}

FbGetCoupon(db, id) ==
    IF ~FsExists(db, "coupons", id) THEN Absent
    ELSE Ok(WithIdCreatedAtExpiresAt(FsDoc(db, "coupons", id)))

\* a variant of the lookup below that leaves out the owner filter
FbGetCouponByCodeAnyOwner(db, code, userId) ==
    LET snapshot == FsWhere(FsDocs(db, "coupons"), "code", code)
    IN  IF snapshot = {} THEN {Absent}
        ELSE {Ok(WithIdCreatedAtExpiresAt(doc)) : doc \in snapshot}

\* .where("code", "==", code).where("userId", "==", userId).limit(1)
FbGetCouponByCode(db, code, userId) ==
    LET snapshot == FsWhere(FsWhere(FsDocs(db, "coupons"), "code", code),
                            "userId", userId)
    IN  IF snapshot = {} THEN {Absent}
        ELSE {Ok(WithIdCreatedAtExpiresAt(doc)) : doc \in snapshot}

FbCreateCoupon(db, id, t, coupon) ==
    LET couponWithDefaults ==
            With(With(With(With(coupon, "id", id), "createdAt", t),
                "usedCount", 0),
                "isActive", Coalesce(Prop(coupon, "isActive"), True))
    IN  Out(FsSet(db, "coupons", id, serializeForFirestore(couponWithDefaults)),
            Ok(couponWithDefaults))

FbUpdateCoupon(db, id, data) ==
    IF ~FsExists(db, "coupons", id) THEN Out(db, Absent)
    ELSE LET after == FsUpdate(db, "coupons", id, serializeForFirestore(data))
         IN  Out(after,
                 Ok(WithIdCreatedAtExpiresAt([id |-> id, data |-> after["coupons"][id]])))

FbDeleteCoupon(db, id) ==
    IF ~FsExists(db, "coupons", id) THEN Out(db, Deleted(False))
    ELSE Out(FsDelete(db, "coupons", id), Deleted(True))

FbGetCustomers(db, userId) ==
    {Listing(MapSeq(s, WithIdCreatedAt)) :
        s \in FsOrderByDesc(FsWhere(FsDocs(db, "customers"), "userId", userId),
                            "createdAt")}

FbGetCustomer(db, id) ==
    IF ~FsExists(db, "customers", id) THEN Absent
    ELSE Ok(WithIdCreatedAt(FsDoc(db, "customers", id)))

\* .where("email", "==", email).where("userId", "==", userId).limit(1)
FbGetCustomerByEmail(db, email, userId) ==
    LET snapshot == FsWhere(FsWhere(FsDocs(db, "customers"), "email", email),
                            "userId", userId)
    IN  IF snapshot = {} THEN {Absent}
        ELSE {Ok(WithIdCreatedAt(doc)) : doc \in snapshot}

\* stores { ...customer, id, createdAt }, returns { id, ...customer, createdAt }
FbCreateCustomer(db, id, t, customer) ==
    Out(FsSet(db, "customers", id,
              serializeForFirestore(With(With(customer, "id", id), "createdAt", t))),
        Ok(With(Spread([id |-> id], customer), "createdAt", t)))

\* a variant of the item query below that leaves out the orderId filter
FbItemsOfAnyOrder(db, orderId) ==
    {MapSeq(s, LAMBDA doc : With(doc.data, "id", doc.id)) :
        s \in Perms(FsDocs(db, "orderItems"))}

\* the items of an order, { ...itemDoc.data(), id: itemDoc.id }, in every
\* order the store may return them
FbItemsOf(db, orderId) ==
    {MapSeq(s, LAMBDA doc : With(doc.data, "id", doc.id)) :
        s \in Perms(FsWhere(FsDocs(db, "orderItems"), "orderId", orderId))}

\* each order with its customer (absent when none has the id) and its items
FbGetOrders(db, userId) ==
    {Listing(MapSeq(s, LAMBDA doc :
            With(With(WithIdCreatedAt(doc), "customer",
                      Attached(FbGetCustomer(db, Prop(doc.data, "customerId")))),
                 "items", items[doc.id]))) :
        s \in FsOrderByDesc(FsWhere(FsDocs(db, "orders"), "userId", userId),
                            "createdAt"),
        items \in {f \in [DOMAIN db["orders"] ->
                            UNION {FbItemsOf(db, o) : o \in DOMAIN db["orders"]}] :
                        \A o \in DOMAIN db["orders"] : f[o] \in FbItemsOf(db, o)}}

FbCreateOrder(db, id, t, order) ==
    LET orderWithDefaults == With(With(order, "id", id), "createdAt", t)
    IN  Out(FsSet(db, "orders", id, serializeForFirestore(orderWithDefaults)),
            Ok(orderWithDefaults))

FbCreateOrderItem(db, id, item) ==
    LET itemWithDefaults ==
            With(With(item, "id", id),
                "downloadCount", Coalesce(Prop(item, "downloadCount"), 0))
    IN  Out(FsSet(db, "orderItems", id, serializeForFirestore(itemWithDefaults)),
            Ok(itemWithDefaults))

\* { ...data, id, tokenExpiresAt: toDate(data.tokenExpiresAt) } with the product
\* that getProduct(item.productId) returns
FbItemWithProduct(db, doc) ==
    With(With(With(doc.data, "id", doc.id),
              "tokenExpiresAt", toDate(Prop(doc.data, "tokenExpiresAt"))),
         "product", Attached(FbGetProduct(db, Prop(doc.data, "productId"))))

\* a variant of the read below that takes each item's price from its product
FbGetOrderItemsRepriced(db, orderId) ==
    {Listing(MapSeq(s, LAMBDA doc :
            LET item == FbItemWithProduct(db, doc)
            IN  IF item.product = Absent THEN item
                ELSE With(item, "price", item.product.price))) :
        s \in Perms(FsWhere(FsDocs(db, "orderItems"), "orderId", orderId))}

\* the items of the order, each with its product, in every order the store
\* may return them
FbGetOrderItems(db, orderId) ==
    {Listing(MapSeq(s, LAMBDA doc : FbItemWithProduct(db, doc))) :
        s \in Perms(FsWhere(FsDocs(db, "orderItems"), "orderId", orderId))}

\* the order with its customer and getOrderItems(id)
FbGetOrder(db, id) ==
    IF ~FsExists(db, "orders", id) THEN {Absent}
    ELSE LET order == WithIdCreatedAt(FsDoc(db, "orders", id))
         IN  {Ok(With(With(order, "customer",
                           Attached(FbGetCustomer(db, Prop(order, "customerId")))),
                      "items", items.list)) :
                items \in FbGetOrderItems(db, id)}

FbGetEmailTemplates(db, userId) ==
    {Listing(MapSeq(s, LAMBDA doc : With(doc.data, "id", doc.id))) :
        s \in Perms(FsWhere(FsDocs(db, "emailTemplates"), "userId", userId))}

FbGetEmailTemplate(db, id) ==
    IF ~FsExists(db, "emailTemplates", id) THEN Absent
    ELSE Ok(IdThenData(FsDoc(db, "emailTemplates", id)))

FbCreateEmailTemplate(db, id, template) ==
    LET templateWithDefaults ==
            With(With(template, "id", id),
                "isActive", Coalesce(Prop(template, "isActive"), True))
    IN  Out(FsSet(db, "emailTemplates", id, serializeForFirestore(templateWithDefaults)),
            Ok(templateWithDefaults))

\* returns { id, ...updated.data() }
FbUpdateEmailTemplate(db, id, data) ==
    IF ~FsExists(db, "emailTemplates", id) THEN Out(db, Absent)
    ELSE LET after == FsUpdate(db, "emailTemplates", id, serializeForFirestore(data))
         IN  Out(after, Ok(IdThenData(FsDoc(after, "emailTemplates", id))))

FbCreatePixelEvent(db, id, t, event) ==
    LET eventWithDefaults == With(With(event, "id", id), "createdAt", t)
    IN  Out(FsSet(db, "pixelEvents", id, serializeForFirestore(eventWithDefaults)),
            Ok(eventWithDefaults))

\* .orderBy("createdAt", "desc").limit(limit)
FbGetPixelEvents(db, userId, limit) ==
    {Listing(MapSeq(Limit(s, limit), LAMBDA doc :
            With(WithIdCreatedAt(doc), "eventTime", toDate(Prop(doc.data, "eventTime"))))) :
        s \in FsOrderByDesc(FsWhere(FsDocs(db, "pixelEvents"), "userId", userId),
                            "createdAt")}

FbCreateAbandonedCart(db, id, t, cart) ==
    LET cartWithDefaults ==
            With(With(With(cart, "id", id), "createdAt", t),
                "recoveryEmailSent", Coalesce(Prop(cart, "recoveryEmailSent"), False))
    IN  Out(FsSet(db, "abandonedCarts", id, serializeForFirestore(cartWithDefaults)),
            Ok(cartWithDefaults))

FbGetAbandonedCarts(db, userId) ==
    {Listing(MapSeq(s, LAMBDA doc :
            With(WithIdCreatedAt(doc), "recoveredAt",
                 toDate(Prop(doc.data, "recoveredAt"))))) :
        s \in FsOrderByDesc(FsWhere(FsDocs(db, "abandonedCarts"), "userId", userId),
                            "createdAt")}

(***************************************************************************)
(* DatabaseStorage (firebase-storage.ts, lines 843-1104).                  *)
(***************************************************************************)
\* select ... where userId = $1 order by createdAt desc: every order the
\* engine may return
PgListByUser(db, tbl, userId) ==
    IF ~IsUuid(userId) THEN {Err("invalid uuid")}
    ELSE {Listing(s) : s \in OrderByDesc(PgSelectByUser(db, tbl, userId), "createdAt")}

PgGetUser(db, id) == PgSelectById(db, "users", id)

PgGetUserByEmail(db, email) ==
    LET rows == {r \in db["users"] : r.email = email}
    IN  IF rows = {} THEN {Absent} ELSE {Ok(r) : r \in rows}

PgCreateUser(db, id, t, user) == PgInsert(db, "users", user, id, t)

PgGetProducts(db, userId) == PgListByUser(db, "products", userId)
PgGetProduct(db, id) == PgSelectById(db, "products", id)
PgCreateProduct(db, id, t, product) == PgInsert(db, "products", product, id, t)
PgUpdateProduct(db, id, data) == PgUpdate(db, "products", id, data)
PgDeleteProduct(db, id) == PgDelete(db, "products", id)

\* { ...page, product } with [product] the row selected by page.productId
PgWithProduct(db, page) ==
    With(page, "product", Attached(PgSelectById(db, "products", page.productId)))

PgGetCheckoutPages(db, userId) ==
    IF ~IsUuid(userId) THEN {Err("invalid uuid")}
    ELSE {Listing(MapSeq(s, LAMBDA page : PgWithProduct(db, page))) :
            s \in OrderByDesc(PgSelectByUser(db, "checkoutPages", userId), "createdAt")}

PgGetCheckoutPage(db, id) ==
    LET page == PgSelectById(db, "checkoutPages", id)
    IN  IF IsOk(page) THEN Ok(PgWithProduct(db, page.val)) ELSE page

\* where slug = $1, destructured as [page]: any matching row
PgGetCheckoutPageBySlug(db, slug) ==
    LET rows == {r \in db["checkoutPages"] : r.slug = slug}
    IN  IF rows = {} THEN {Absent} ELSE {Ok(PgWithProduct(db, r)) : r \in rows}

PgCreateCheckoutPage(db, id, t, page) == PgInsert(db, "checkoutPages", page, id, t)
PgUpdateCheckoutPage(db, id, data) == PgUpdate(db, "checkoutPages", id, data)
PgDeleteCheckoutPage(db, id) == PgDelete(db, "checkoutPages", id)

PgGetCoupons(db, userId) == PgListByUser(db, "coupons", userId)
PgGetCoupon(db, id) == PgSelectById(db, "coupons", id)

\* where code = $1 and userId = $2, destructured as [coupon]: any matching row
PgGetCouponByCode(db, code, userId) ==
    IF ~IsUuid(userId) THEN {Err("invalid uuid")}
    ELSE LET rows == {r \in db["coupons"] : r.code = code /\ r.userId = userId}
         IN  IF rows = {} THEN {Absent} ELSE {Ok(r) : r \in rows}

PgCreateCoupon(db, id, t, coupon) == PgInsert(db, "coupons", coupon, id, t)
PgUpdateCoupon(db, id, data) == PgUpdate(db, "coupons", id, data)
PgDeleteCoupon(db, id) == PgDelete(db, "coupons", id)

PgGetCustomers(db, userId) == PgListByUser(db, "customers", userId)
PgGetCustomer(db, id) == PgSelectById(db, "customers", id)
\* where email = $1 and userId = $2, destructured as [customer]
PgGetCustomerByEmail(db, email, userId) ==
    IF ~IsUuid(userId) THEN {Err("invalid uuid")}
    ELSE LET rows == {r \in db["customers"] : r.email = email /\ r.userId = userId}
         IN  IF rows = {} THEN {Absent} ELSE {Ok(r) : r \in rows}
PgCreateCustomer(db, id, t, customer) == PgInsert(db, "customers", customer, id, t)

\* select ... from orderItems where orderId = $1, in every order the engine
\* may return the rows
PgItemsOf(db, orderId) == Perms({r \in db["orderItems"] : r.orderId = orderId})

\* { ...order, customer, items } for each order of the owner
PgGetOrders(db, userId) ==
    IF ~IsUuid(userId) THEN {Err("invalid uuid")}
    ELSE {Listing(MapSeq(s, LAMBDA order :
                With(With(order, "customer",
                          Attached(PgSelectById(db, "customers", order.customerId))),
                     "items", items[order.id]))) :
            s \in OrderByDesc(PgSelectByUser(db, "orders", userId), "createdAt"),
            items \in {f \in [PgRowIds(db, "orders") ->
                                UNION {PgItemsOf(db, o) : o \in PgRowIds(db, "orders")}] :
                            \A o \in PgRowIds(db, "orders") : f[o] \in PgItemsOf(db, o)}}

PgCreateOrder(db, id, t, order) == PgInsert(db, "orders", order, id, t)

PgCreateOrderItem(db, id, t, item) == PgInsert(db, "orderItems", item, id, t)

\* the rows with the orderId, each with [product] selected by item.productId
PgItemsWithProducts(db, orderId) ==
    {MapSeq(s, LAMBDA item :
            With(item, "product", Attached(PgSelectById(db, "products", item.productId)))) :
        s \in PgItemsOf(db, orderId)}

PgGetOrderItems(db, orderId) ==
    IF ~IsUuid(orderId) THEN {Err("invalid uuid")}
    ELSE {Listing(s) : s \in PgItemsWithProducts(db, orderId)}

PgGetOrder(db, id) ==
    LET order == PgSelectById(db, "orders", id)
    IN  IF ~IsOk(order) THEN {order}
        ELSE {Ok(With(With(order.val, "customer",
                           Attached(PgSelectById(db, "customers", order.val.customerId))),
                      "items", items)) :
                items \in PgItemsWithProducts(db, id)}

PgCreateEmailTemplate(db, id, t, template) ==
    PgInsert(db, "emailTemplates", template, id, t)

\* no orderBy: the rows of the owner in any order
PgGetEmailTemplates(db, userId) ==
    IF ~IsUuid(userId) THEN {Err("invalid uuid")}
    ELSE {Listing(s) : s \in Perms(PgSelectByUser(db, "emailTemplates", userId))}

PgGetEmailTemplate(db, id) == PgSelectById(db, "emailTemplates", id)
PgUpdateEmailTemplate(db, id, data) == PgUpdate(db, "emailTemplates", id, data)

PgCreatePixelEvent(db, id, t, event) == PgInsert(db, "pixelEvents", event, id, t)

\* ... order by createdAt desc limit $2
PgGetPixelEvents(db, userId, limit) ==
    IF ~IsUuid(userId) THEN {Err("invalid uuid")}
    ELSE {Listing(Limit(s, limit)) :
            s \in OrderByDesc(PgSelectByUser(db, "pixelEvents", userId), "createdAt")}

PgCreateAbandonedCart(db, id, t, cart) == PgInsert(db, "abandonedCarts", cart, id, t)
PgGetAbandonedCarts(db, userId) == PgListByUser(db, "abandonedCarts", userId)

(***************************************************************************)
(* storage = createStorage(): the one instance the routes call, chosen by  *)
(* DATABASE_TYPE.  Each method dispatches to the selected backend.         *)
(***************************************************************************)
Backends == {"firebase", "postgres"}

StGetUserByEmail(b, db, email) ==
    IF b = "firebase" THEN FbGetUserByEmail(db, email) ELSE PgGetUserByEmail(db, email)
StCreateUser(b, db, id, t, user) ==
    IF b = "firebase" THEN FbCreateUser(db, id, user) ELSE PgCreateUser(db, id, t, user)
StGetCouponByCode(b, db, code, userId) ==
    IF b = "firebase" THEN FbGetCouponByCode(db, code, userId)
    ELSE PgGetCouponByCode(db, code, userId)
StCreateCoupon(b, db, id, t, coupon) ==
    IF b = "firebase" THEN FbCreateCoupon(db, id, t, coupon)
    ELSE PgCreateCoupon(db, id, t, coupon)
StUpdateCoupon(b, db, id, data) ==
    IF b = "firebase" THEN FbUpdateCoupon(db, id, data) ELSE PgUpdateCoupon(db, id, data)

(***************************************************************************)
(* The routes (routes.ts).  A response is its status and its JSON body.    *)
(***************************************************************************)
DemoEmail == 1
Response(status, body) == [status |-> status, body |-> body]
ErrorBody(msg) == [error |-> msg]

\* getCurrentUserId: the demo user's id, creating the demo user when absent.
\* The outcomes: the store after the call and the id, or the error thrown.
getCurrentUserId(b, db, id, t) ==
    UNION {
        IF IsErr(user) THEN {Out(db, user)}
        ELSE IF IsOk(user) THEN {Out(db, Ok(user.val.id))}
        ELSE LET created == StCreateUser(b, db, id, t, [email |-> DemoEmail])
             IN  IF IsErr(created.res) THEN {created}
                 ELSE {Out(created.db, Ok(created.res.val.id))}
        : user \in StGetUserByEmail(b, db, DemoEmail)}

\* a variant of the checks below whose usage rule compares with > in place of
\* >=, so that a coupon used exactly usageLimit times still validates
ValidateCouponAboveLimit(coupon, t) ==
    IF IsErr(coupon) THEN Response(500, ErrorBody("Failed to validate coupon"))
    ELSE IF ~IsOk(coupon) THEN Response(404, ErrorBody("Coupon not found"))
    ELSE IF ~Truthy(Prop(coupon.val, "isActive"))
        THEN Response(400, ErrorBody("Coupon is inactive"))
    ELSE IF /\ Truthy(Prop(coupon.val, "usageLimit"))
            /\ Truthy(Prop(coupon.val, "usedCount"))
            /\ coupon.val.usedCount > coupon.val.usageLimit
        THEN Response(400, ErrorBody("Coupon usage limit reached"))
    ELSE IF /\ TruthyObj(Prop(coupon.val, "expiresAt"))
            /\ coupon.val.expiresAt < t
        THEN Response(400, ErrorBody("Coupon has expired"))
    ELSE Response(200, coupon.val)

\* the checks of POST /api/coupons/validate on the coupon a lookup returned,
\* evaluated at time t
ValidateCoupon(coupon, t) ==
    IF IsErr(coupon) THEN Response(500, ErrorBody("Failed to validate coupon"))
    ELSE IF ~IsOk(coupon) THEN Response(404, ErrorBody("Coupon not found"))
    ELSE IF ~Truthy(Prop(coupon.val, "isActive"))
        THEN Response(400, ErrorBody("Coupon is inactive"))
    ELSE IF /\ Truthy(Prop(coupon.val, "usageLimit"))
            /\ Truthy(Prop(coupon.val, "usedCount"))
            /\ coupon.val.usedCount >= coupon.val.usageLimit
        THEN Response(400, ErrorBody("Coupon usage limit reached"))
    ELSE IF /\ TruthyObj(Prop(coupon.val, "expiresAt"))
            /\ coupon.val.expiresAt < t
        THEN Response(400, ErrorBody("Coupon has expired"))
    ELSE Response(200, coupon.val)

\* POST /api/coupons/validate with body { code }
PostCouponsValidate(b, db, id, t, code) ==
    UNION {
        IF IsErr(u.res)
            THEN {Out(u.db, Response(500, ErrorBody("Failed to validate coupon")))}
        ELSE {Out(u.db, ValidateCoupon(coupon, t)) :
                coupon \in StGetCouponByCode(b, u.db, code, u.res.val)}
        : u \in getCurrentUserId(b, db, id, t)}

\* POST /api/coupons: createCoupon({ ...req.body, userId })
PostCoupons(b, db, id, idCoupon, t, body) ==
    UNION {
        IF IsErr(u.res)
            THEN {Out(u.db, Response(500, ErrorBody("Failed to create coupon")))}
        ELSE LET coupon == StCreateCoupon(b, u.db, idCoupon, t,
                                          With(body, "userId", u.res.val))
             IN  IF IsErr(coupon.res)
                    THEN {Out(coupon.db, Response(500, ErrorBody("Failed to create coupon")))}
                 ELSE {Out(coupon.db, Response(201, coupon.res.val))}
        : u \in getCurrentUserId(b, db, id, t)}

\* PATCH /api/coupons/:id: updateCoupon(req.params.id, req.body)
PatchCouponsId(b, db, id, body) ==
    LET coupon == StUpdateCoupon(b, db, id, body)
    IN  IF IsErr(coupon.res)
            THEN Out(coupon.db, Response(500, ErrorBody("Failed to update coupon")))
        ELSE IF ~IsOk(coupon.res)
            THEN Out(coupon.db, Response(404, ErrorBody("Coupon not found")))
        ELSE Out(coupon.db, Response(200, coupon.res.val))

(***************************************************************************)
(* The product routes and GET /api/orders/:id (routes.ts 51-102, 300-311). *)
(* A handler's result is the outcome of its storage calls ("ok", "absent"  *)
(* or "error") with the responses it sends, in the order it sends them.    *)
(***************************************************************************)
StGetProduct(b, db, id) ==
    IF b = "firebase" THEN FbGetProduct(db, id) ELSE PgGetProduct(db, id)
StCreateProduct(b, db, id, t, product) ==
    IF b = "firebase" THEN FbCreateProduct(db, id, t, product)
    ELSE PgCreateProduct(db, id, t, product)
StUpdateProduct(b, db, id, data) ==
    IF b = "firebase" THEN FbUpdateProduct(db, id, data) ELSE PgUpdateProduct(db, id, data)
StDeleteProduct(b, db, id) ==
    IF b = "firebase" THEN FbDeleteProduct(db, id) ELSE PgDeleteProduct(db, id)
StGetOrder(b, db, id) ==
    IF b = "firebase" THEN FbGetOrder(db, id) ELSE PgGetOrder(db, id)

Handled(outcome, sent) == [outcome |-> outcome, sent |-> sent]
NoBody == <<>>

\* a variant of the handler below without the return in front of
\* res.status(404): it goes on to res.json(product)
GetProductsIdFallingThrough(b, db, id) ==
    LET product == StGetProduct(b, db, id)
    IN  Out(db, Handled(product.tag,
            IF IsErr(product)
                THEN <<Response(500, ErrorBody("Failed to fetch product"))>>
            ELSE IF ~IsOk(product)
                THEN <<Response(404, ErrorBody("Product not found")),
                       Response(200, NoBody)>>
            ELSE <<Response(200, product.val)>>))

\* GET /api/products/:id
GetProductsId(b, db, id) ==
    LET product == StGetProduct(b, db, id)
    IN  Out(db, Handled(product.tag,
            IF IsErr(product)
                THEN <<Response(500, ErrorBody("Failed to fetch product"))>>
            ELSE IF ~IsOk(product)
                THEN <<Response(404, ErrorBody("Product not found"))>>
            ELSE <<Response(200, product.val)>>))

\* POST /api/products: createProduct({ ...req.body, userId })
PostProducts(b, db, id, idProduct, t, body) ==
    UNION {
        IF IsErr(u.res)
            THEN {Out(u.db, Handled("error",
                        <<Response(500, ErrorBody("Failed to create product"))>>))}
        ELSE LET product == StCreateProduct(b, u.db, idProduct, t,
                                            With(body, "userId", u.res.val))
             IN  IF IsErr(product.res)
                    THEN {Out(product.db, Handled("error",
                            <<Response(500, ErrorBody("Failed to create product"))>>))}
                 ELSE {Out(product.db, Handled("ok",
                            <<Response(201, product.res.val)>>))}
        : u \in getCurrentUserId(b, db, id, t)}

\* PATCH /api/products/:id: updateProduct(req.params.id, req.body)
PatchProductsId(b, db, id, body) ==
    LET product == StUpdateProduct(b, db, id, body)
    IN  Out(product.db, Handled(product.res.tag,
            IF IsErr(product.res)
                THEN <<Response(500, ErrorBody("Failed to update product"))>>
            ELSE IF ~IsOk(product.res)
                THEN <<Response(404, ErrorBody("Product not found"))>>
            ELSE <<Response(200, product.res.val)>>))

\* DELETE /api/products/:id
DeleteProductsId(b, db, id) ==
    LET deleted == StDeleteProduct(b, db, id)
    IN  Out(deleted.db,
            IF IsErr(deleted.res)
                THEN Handled("error",
                        <<Response(500, ErrorBody("Failed to delete product"))>>)
            ELSE IF deleted.res.deleted = False
                THEN Handled("absent", <<Response(404, ErrorBody("Product not found"))>>)
            ELSE Handled("ok", <<Response(204, NoBody)>>))

\* GET /api/orders/:id
GetOrdersId(b, db, id) ==
    {Out(db, Handled(order.tag,
            IF IsErr(order)
                THEN <<Response(500, ErrorBody("Failed to fetch order"))>>
            ELSE IF ~IsOk(order)
                THEN <<Response(404, ErrorBody("Order not found"))>>
            ELSE <<Response(200, order.val)>>)) :
        order \in StGetOrder(b, db, id)}

(***************************************************************************)
(* Firestore initialisation (initializeFirebase, getFirestore).  [m] holds *)
(* the module variables firebaseApp and firestoreDb and the number of apps *)
(* the SDK has created; [key] is FIREBASE_SERVICE_ACCOUNT_KEY and [sdk]    *)
(* the SDK call that fails during this call, if any.  An app or a Firestore*)
(* instance is the number of the initialisation that created it.           *)
(***************************************************************************)
KeyUnset == "<unset>"
ServiceAccountKeys == {KeyUnset, "", "{malformed", "{valid}"}
SdkFailures == {"none", "initializeApp", "firestore"}

Module(app, db, apps) == [app |-> app, db |-> db, apps |-> apps]
Init1(m, res) == [m |-> m, res |-> res]

initializeFirebase(m, key, sdk) ==
    IF m.app # Null THEN Init1(m, Ok([app |-> m.app, db |-> m.db]))
    ELSE IF key \in {KeyUnset, ""}
        THEN Init1(m, Err("FIREBASE_SERVICE_ACCOUNT_KEY environment variable is not set"))
    ELSE IF key = "{malformed" THEN Init1(m, Err("SyntaxError"))
    ELSE IF sdk = "initializeApp" THEN Init1(m, Err("initializeApp failed"))
    ELSE LET created == m.apps + 1
         IN  IF sdk = "firestore"
                THEN Init1(Module(created, m.db, created), Err("firestore failed"))
             ELSE Init1(Module(created, created, created),
                        Ok([app |-> created, db |-> created]))

getFirestore(m, key, sdk) ==
    IF m.db = Null
    THEN LET r == initializeFirebase(m, key, sdk)
         IN  IF IsErr(r.res) THEN r ELSE Init1(r.m, Ok(r.res.val.db))
    ELSE Init1(m, Ok(m.db))

\* FirebaseStorage.createUser with `this.db` evaluated by getFirestore()
DbCreateUser(db, m, key, sdk, id, user) ==
    LET got == getFirestore(m, key, sdk)
    IN  IF IsErr(got.res) THEN [db |-> db, m |-> got.m, res |-> got.res]
        ELSE IF got.res.val = Null
            THEN [db |-> db, m |-> got.m, res |-> Err("TypeError")]
        ELSE LET created == FbCreateUser(db, id, user)
             IN  [db |-> created.db, m |-> got.m, res |-> created.res]

(***************************************************************************)
(* State: the two stores, the id generator, the wall clock, the last call  *)
(* with what each backend returned for it, the process environment's       *)
(* DATABASE_TYPE, the exported storage instance, the storage calls and     *)
(* requests in flight, one per process, each at its next await, the two    *)
(* module variables of the Firestore initialisation and the number of apps *)
(* admin.initializeApp has created.                                        *)
(***************************************************************************)
VARIABLES fb, pg, nextId, now, last, env, storage, calls,
          firebaseApp, firestoreDb, adminApps
vars == <<fb, pg, nextId, now, last, env, storage, calls,
          firebaseApp, firestoreDb, adminApps>>

MaxProcs == 2
Procs == 1 .. MaxProcs
\* a process that runs no call
Idle == [op |-> "idle"]

\* process.env.DATABASE_TYPE is not set
Unset == "<unset>"
\* the values the flag may hold
DatabaseTypes == {Unset, "", "firebase", "postgres", "Firebase"}

\* a variant of the selector below that defaults to the document backend
createStorageDefaultFirebase(databaseType) ==
    LET dbType == IF databaseType \in {Unset, ""} THEN "firebase" ELSE databaseType
    IN  IF dbType = "firebase" THEN "firebase" ELSE "postgres"

\* createStorage(): `process.env.DATABASE_TYPE || "postgres"`, then the
\* document backend for "firebase" and the relational backend otherwise
createStorage(databaseType) ==
    LET dbType == IF databaseType \in {Unset, ""} THEN "postgres" ELSE databaseType
    IN  IF dbType = "firebase" THEN "firebase" ELSE "postgres"

\* the stores are empty and the module has been loaded with the flag e
Loaded(e) ==
    /\ fb = [c \in Collections |-> <<>>]
    /\ pg = [t \in Tables |-> {}]
    /\ nextId = 1
    /\ now = 0
    /\ last = [op |-> "init"]
    /\ env = e
    /\ storage = createStorage(e)
    /\ calls = [p \in Procs |-> Idle]
    /\ firebaseApp = Null
    /\ firestoreDb = Null
    /\ adminApps = 0

\* the calls below are made on both backends, whichever one the flag selects
Init == Loaded(Unset)

\* a call `op` that took the outcome f in the document backend and p in the
\* relational backend, and drew `ids` ids from the generator
Step(op, args, f, p, ids) ==
    /\ fb' = f.db
    /\ pg' = p.db
    /\ last' = [op |-> op, args |-> args, fb |-> f.res, pg |-> p.res]
    /\ nextId' = nextId + ids
    /\ UNCHANGED <<now, env, storage, calls, firebaseApp, firestoreDb, adminApps>>

\* a read: the stores stay as they are
Read(op, args, fs, ps) ==
    \E f \in fs, p \in ps : Step(op, args, Out(fb, f), Out(pg, p), 0)

\* the inputs: an object with the fields of `base` and any choice of the
\* optional fields
Optional(f, vals) == {<<>>} \cup {f :> v : v \in vals}
\* the demo user's address and another one
Emails == {DemoEmail, DemoEmail + 1}
Codes == {1, 2}
\* the ids that name a stored user in either backend, and one that names none
UserIds == DOMAIN fb["users"] \cup PgRowIds(pg, "users")
Owners == UserIds \cup {GhostId}

Tick ==
    /\ now < MaxTime
    /\ now' = now + 1
    /\ UNCHANGED <<fb, pg, nextId, last, env, storage, calls, firebaseApp, firestoreDb, adminApps>>

CreateUser ==
    \E email \in Emails :
        /\ nextId \in Ids
        /\ Cardinality(DOMAIN fb["users"]) < MaxUsers
        /\ Step("createUser", [email |-> email],
                FbCreateUser(fb, nextId, [email |-> email]),
                PgCreateUser(pg, nextId, now, [email |-> email]), 1)

\* createCoupon called on the contract directly, for any owner
CouponInputs == {[userId |-> u, code |-> 1] : u \in Owners}

RoomForCoupon == Cardinality(DOMAIN fb["coupons"]) < MaxCoupons

CreateCoupon ==
    \E coupon \in CouponInputs :
        /\ nextId \in Ids
        /\ RoomForCoupon
        /\ Step("createCoupon", [coupon |-> coupon],
                FbCreateCoupon(fb, nextId, now, coupon),
                PgCreateCoupon(pg, nextId, now, coupon), 1)

CouponPartials ==
    {[usedCount |-> v] : v \in {0, 1}}
        \cup {[usageLimit |-> v] : v \in {0, 1}}
        \cup {[isActive |-> v] : v \in {True, False}}
        \cup {[expiresAt |-> v] : v \in {1}}

\* the ids of the stored coupons, and one that names none
CouponIds == DOMAIN fb["coupons"] \cup PgRowIds(pg, "coupons") \cup {GhostId}

UpdateCoupon ==
    \E id \in CouponIds, data \in CouponPartials :
        Step("updateCoupon", [id |-> id, data |-> data],
             FbUpdateCoupon(fb, id, data), PgUpdateCoupon(pg, id, data), 0)

\* whether the route's getCurrentUserId creates the demo user in some backend
NeedsDemoUser ==
    \/ Absent \in FbGetUserByEmail(fb, DemoEmail)
    \/ Absent \in PgGetUserByEmail(pg, DemoEmail)
DemoIds == IF NeedsDemoUser THEN 1 ELSE 0

RouteCouponsValidate ==
    \E code \in Codes :
        /\ nextId + DemoIds <= MaxIds + 1
        /\ \E f \in PostCouponsValidate("firebase", fb, nextId, now, code),
              p \in PostCouponsValidate("postgres", pg, nextId, now, code) :
                Step("POST /api/coupons/validate", [code |-> code, at |-> now],
                     f, p, DemoIds)

CouponBodies ==
    {o1 @@ o2 @@ [code |-> 1] :
        o1 \in Optional("usageLimit", {1}),
        o2 \in Optional("usedCount", {2})}

RouteCoupons ==
    \E body \in CouponBodies :
        /\ nextId + DemoIds <= MaxIds
        /\ RoomForCoupon
        /\ \E f \in PostCoupons("firebase", fb, nextId, nextId + DemoIds, now, body),
              p \in PostCoupons("postgres", pg, nextId, nextId + DemoIds, now, body) :
                Step("POST /api/coupons", [body |-> body], f, p, DemoIds + 1)

RoutePatchCoupon ==
    \E id \in CouponIds, body \in CouponPartials :
        Step("PATCH /api/coupons/:id", [id |-> id, body |-> body],
             PatchCouponsId("firebase", fb, id, body),
             PatchCouponsId("postgres", pg, id, body), 0)

NextCoupon ==
    \/ Tick
    \/ CreateCoupon
    \/ UpdateCoupon
    \/ RouteCouponsValidate
    \/ RouteCoupons
    \/ RoutePatchCoupon

SpecCoupon == Init /\ [][NextCoupon]_vars

(***************************************************************************)
(* Coupon validation: claims C1, C2, C3 and C6, under SpecCoupon.          *)
(***************************************************************************)
\* the stored coupons of backend b, as its reads return them
StoredCoupons(b) ==
    IF b = "firebase"
    THEN {WithIdCreatedAtExpiresAt(doc) : doc \in FsDocs(fb, "coupons")}
    ELSE pg["coupons"]

\* what the last call returned from backend b
Returned(b) == IF b = "firebase" THEN last.fb ELSE last.pg

\* the demo user's ids in backend b
DemoUserIds(b) ==
    IF b = "firebase"
    THEN {doc.id : doc \in FsWhere(FsDocs(fb, "users"), "email", DemoEmail)}
    ELSE {r.id : r \in {u \in pg["users"] : u.email = DemoEmail}}

\* the coupons with the given code that belong to the demo user
DemoCoupons(b, code) ==
    {c \in StoredCoupons(b) : c.code = code /\ c.userId \in DemoUserIds(b)}

IsSet(v) == v # Null /\ v # Undefined
AtLimit(c) == IsSet(Prop(c, "usageLimit")) /\ c.usedCount >= c.usageLimit
Expired(c, t) == IsSet(Prop(c, "expiresAt")) /\ c.expiresAt < t
Inactive(c) == c.isActive = False

\* the outcome the validation rules give for coupon c at time t
SpecifiedValidation(c, t) ==
    IF Inactive(c) THEN Response(400, ErrorBody("Coupon is inactive"))
    ELSE IF AtLimit(c) THEN Response(400, ErrorBody("Coupon usage limit reached"))
    ELSE IF Expired(c, t) THEN Response(400, ErrorBody("Coupon has expired"))
    ELSE Response(200, c)

Validated == last.op = "POST /api/coupons/validate"

\* C1: a validation returns 'not found' when the owner has no coupon with the
\* code, and otherwise what the rules inactive, limit reached, expired give, in
\* this order, for a coupon with that code and owner; success returns the coupon.
C1_ValidationAsSpecified ==
    Validated =>
        \A b \in Backends :
            IF DemoCoupons(b, last.args.code) = {}
            THEN Returned(b) = Response(404, ErrorBody("Coupon not found"))
            ELSE Returned(b) \in
                    {SpecifiedValidation(c, last.args.at) :
                        c \in DemoCoupons(b, last.args.code)}

\* C2: a coupon that breaks several rules fails with the first of inactive,
\* limit reached, expired: inactive and expired gives 'inactive', inactive and
\* at its limit gives 'inactive', at its limit and expired gives 'limit reached'.
C2_FirstFailingRule ==
    Validated =>
        \A b \in Backends :
            \A c \in DemoCoupons(b, last.args.code) :
                DemoCoupons(b, last.args.code) = {c} =>
                    /\ Inactive(c) /\ Expired(c, last.args.at)
                        => Returned(b).body = ErrorBody("Coupon is inactive")
                    /\ Inactive(c) /\ AtLimit(c)
                        => Returned(b).body = ErrorBody("Coupon is inactive")
                    /\ AtLimit(c) /\ Expired(c, last.args.at)
                        => Returned(b).body = ErrorBody("Coupon usage limit reached")

\* the one coupon of the demo user with the code of the last validation, when
\* it has usageLimit 1, is active and has not expired
LimitOneCoupon(b, c) ==
    /\ DemoCoupons(b, last.args.code) = {c}
    /\ Prop(c, "usageLimit") = 1
    /\ ~Inactive(c)
    /\ ~Expired(c, last.args.at)

\* C3: a validation changes no coupon, and a coupon with usageLimit 1 validates
\* successfully while its usedCount is 0 and fails with 'limit reached' once
\* updateCoupon has set its usedCount to 1.
C3_ValidationReadOnly ==
    /\ [][Validated' =>
            /\ fb'["coupons"] = fb["coupons"]
            /\ pg'["coupons"] = pg["coupons"]]_vars
    /\ [](Validated =>
            \A b \in Backends : \A c \in StoredCoupons(b) :
                LimitOneCoupon(b, c) =>
                    /\ c.usedCount = 0 => Returned(b) = Response(200, c)
                    /\ c.usedCount >= 1 =>
                        Returned(b) = Response(400, ErrorBody("Coupon usage limit reached")))

\* a validation that failed with 'limit reached' in both backends on a coupon
\* whose usedCount an updateCoupon call had set to 1
C3_Witness ==
    /\ Validated
    /\ \A b \in Backends :
        /\ Returned(b) = Response(400, ErrorBody("Coupon usage limit reached"))
        /\ \E c \in StoredCoupons(b) : LimitOneCoupon(b, c) /\ c.usedCount = 1

\* C6: createCoupon returns and persists usedCount = 0 whatever its input
\* holds, also when POST /api/coupons forwards a body with a usedCount field.
C6_UsedCountStartsAtZero ==
    /\ last.op = "createCoupon" =>
        \A b \in Backends :
            IsOk(Returned(b)) =>
                /\ Returned(b).val.usedCount = 0
                /\ \A c \in StoredCoupons(b) :
                        c.id = Returned(b).val.id => c.usedCount = 0
    /\ last.op = "POST /api/coupons" =>
        \A b \in Backends :
            Returned(b).status = 201 =>
                /\ Returned(b).body.usedCount = 0
                /\ \A c \in StoredCoupons(b) :
                        c.id = Returned(b).body.id => c.usedCount = 0
(***************************************************************************)
(* The catalog: users, products and checkout pages, called on the storage  *)
(* contract directly, each call made on both backends.                     *)
(***************************************************************************)
\* the ids a caller may pass: those stored in either backend, one that names
\* nothing and one that is not a UUID
ProductIds == DOMAIN fb["products"] \cup PgRowIds(pg, "products")
CheckoutPageIds == DOMAIN fb["checkoutPages"] \cup PgRowIds(pg, "checkoutPages")
NoIds == {GhostId, NonUuidId}
\* some backend holds an entity of the kind
Stored(tbl) == fb[tbl] # <<>> \/ pg[tbl] # {}

ProductInputs ==
    {o1 @@ o2 @@ [userId |-> u, price |-> 1] :
        u \in Owners,
        o1 \in Optional("downloadLimit", {0, Null}),
        o2 \in Optional("isActive", {False})}

ProductPartials == {[isActive |-> False], [isActive |-> Undefined], <<>>}

CheckoutPageInputs ==
    {[userId |-> u, productId |-> p, slug |-> 1] :
        u \in UserIds, p \in ProductIds \cup {GhostId}}

GetUser ==
    \E id \in UserIds \cup NoIds :
        Read("getUser", [id |-> id], {FbGetUser(fb, id)}, {PgGetUser(pg, id)})

CreateProduct ==
    \E product \in ProductInputs :
        /\ nextId <= MaxCatalogIds
        /\ Step("createProduct", [product |-> product],
                FbCreateProduct(fb, nextId, now, product),
                PgCreateProduct(pg, nextId, now, product), 1)

GetProduct ==
    \E id \in ProductIds \cup NoIds :
        Read("getProduct", [id |-> id], {FbGetProduct(fb, id)}, {PgGetProduct(pg, id)})

GetProducts ==
    \E userId \in Owners \cup {NonUuidId} :
        /\ Stored("products")
        /\ Read("getProducts", [userId |-> userId],
             FbGetProducts(fb, userId), PgGetProducts(pg, userId))

UpdateProduct ==
    \E id \in ProductIds \cup NoIds, data \in ProductPartials :
        Step("updateProduct", [id |-> id, data |-> data],
             FbUpdateProduct(fb, id, data), PgUpdateProduct(pg, id, data), 0)

DeleteProduct ==
    \E id \in ProductIds \cup NoIds :
        Step("deleteProduct", [id |-> id],
             FbDeleteProduct(fb, id), PgDeleteProduct(pg, id), 0)

CreateCheckoutPage ==
    \E page \in CheckoutPageInputs :
        /\ nextId <= MaxCatalogIds
        /\ Step("createCheckoutPage", [page |-> page],
                FbCreateCheckoutPage(fb, nextId, now, page),
                PgCreateCheckoutPage(pg, nextId, now, page), 1)

GetCheckoutPage ==
    \E id \in CheckoutPageIds \cup NoIds :
        Read("getCheckoutPage", [id |-> id],
             {FbGetCheckoutPage(fb, id)}, {PgGetCheckoutPage(pg, id)})

GetCheckoutPages ==
    \E userId \in Owners \cup {NonUuidId} :
        /\ Stored("checkoutPages")
        /\ Read("getCheckoutPages", [userId |-> userId],
             FbGetCheckoutPages(fb, userId), PgGetCheckoutPages(pg, userId))

DeleteCheckoutPage ==
    \E id \in CheckoutPageIds \cup NoIds :
        Step("deleteCheckoutPage", [id |-> id],
             FbDeleteCheckoutPage(fb, id), PgDeleteCheckoutPage(pg, id), 0)

Next ==
    \/ CreateUser
    \/ GetUser
    \/ CreateProduct
    \/ GetProduct
    \/ GetProducts
    \/ UpdateProduct
    \/ DeleteProduct
    \/ CreateCheckoutPage
    \/ GetCheckoutPage
    \/ GetCheckoutPages
    \/ DeleteCheckoutPage

Spec == Init /\ [][Next]_vars
(***************************************************************************)
(* The listings: the seven kinds that are listed by owner, newest first.   *)
(* Entities are created with their required fields, at the clock's time.   *)
(***************************************************************************)
\* the listed kinds, grouped with the kinds they reference
Families ==
    {{"products", "checkoutPages", "abandonedCarts"}, {"coupons"},
     {"customers", "orders"}, {"pixelEvents"}}
ListedTables == UNION Families
FamilyOf(tbl) == CHOOSE f \in Families : tbl \in f
StoredTables == {tbl \in ListedTables : Stored(tbl)}
\* a create in tbl keeps the stored kinds within MaxFamilies families and
\* the kind within MaxListed entities
RoomFor(tbl) ==
    /\ nextId \in Ids
    /\ Cardinality(DOMAIN fb[tbl] \cup PgRowIds(pg, tbl)) < MaxListed
    /\ Cardinality({FamilyOf(t) : t \in StoredTables \cup {tbl}}) <= MaxFamilies

CustomerIds == DOMAIN fb["customers"] \cup PgRowIds(pg, "customers")
PixelEventsLimitDefault == 100
Limits == {1, PixelEventsLimitDefault}

NewProduct ==
    \E u \in UserIds :
        /\ RoomFor("products")
        /\ Step("createProduct", [product |-> [userId |-> u, price |-> 1]],
                FbCreateProduct(fb, nextId, now, [userId |-> u, price |-> 1]),
                PgCreateProduct(pg, nextId, now, [userId |-> u, price |-> 1]), 1)

NewCheckoutPage ==
    \E page \in {[userId |-> u, productId |-> p, slug |-> 1] :
                    u \in UserIds, p \in ProductIds} :
        /\ RoomFor("checkoutPages")
        /\ Step("createCheckoutPage", [page |-> page],
                FbCreateCheckoutPage(fb, nextId, now, page),
                PgCreateCheckoutPage(pg, nextId, now, page), 1)

NewCoupon ==
    \E u \in UserIds :
        /\ RoomFor("coupons")
        /\ Step("createCoupon", [coupon |-> [userId |-> u, code |-> 1]],
                FbCreateCoupon(fb, nextId, now, [userId |-> u, code |-> 1]),
                PgCreateCoupon(pg, nextId, now, [userId |-> u, code |-> 1]), 1)

NewCustomer ==
    \E u \in UserIds :
        /\ RoomFor("customers")
        /\ Step("createCustomer", [customer |-> [userId |-> u, email |-> 1]],
                FbCreateCustomer(fb, nextId, now, [userId |-> u, email |-> 1]),
                PgCreateCustomer(pg, nextId, now, [userId |-> u, email |-> 1]), 1)

NewOrder ==
    \E u \in UserIds, c \in CustomerIds :
        /\ RoomFor("orders")
        /\ Step("createOrder", [order |-> [userId |-> u, customerId |-> c]],
                FbCreateOrder(fb, nextId, now, [userId |-> u, customerId |-> c]),
                PgCreateOrder(pg, nextId, now, [userId |-> u, customerId |-> c]), 1)

NewPixelEvent ==
    \E u \in UserIds :
        /\ RoomFor("pixelEvents")
        /\ Step("createPixelEvent", [event |-> [userId |-> u, eventTime |-> now]],
                FbCreatePixelEvent(fb, nextId, now, [userId |-> u, eventTime |-> now]),
                PgCreatePixelEvent(pg, nextId, now, [userId |-> u, eventTime |-> now]), 1)

NewAbandonedCart ==
    \E u \in UserIds, c \in CheckoutPageIds :
        /\ RoomFor("abandonedCarts")
        /\ Step("createAbandonedCart", [cart |-> [userId |-> u, checkoutPageId |-> c]],
                FbCreateAbandonedCart(fb, nextId, now, [userId |-> u, checkoutPageId |-> c]),
                PgCreateAbandonedCart(pg, nextId, now, [userId |-> u, checkoutPageId |-> c]), 1)

GetCoupons ==
    \E userId \in Owners \cup {NonUuidId} :
        /\ Stored("coupons")
        /\ Read("getCoupons", [userId |-> userId],
             FbGetCoupons(fb, userId), PgGetCoupons(pg, userId))

GetCustomers ==
    \E userId \in Owners \cup {NonUuidId} :
        /\ Stored("customers")
        /\ Read("getCustomers", [userId |-> userId],
             FbGetCustomers(fb, userId), PgGetCustomers(pg, userId))

GetOrders ==
    \E userId \in Owners \cup {NonUuidId} :
        /\ Stored("orders")
        /\ Read("getOrders", [userId |-> userId],
             FbGetOrders(fb, userId), PgGetOrders(pg, userId))

GetPixelEvents ==
    \E userId \in Owners \cup {NonUuidId}, limit \in Limits :
        /\ Stored("pixelEvents")
        /\ Read("getPixelEvents", [userId |-> userId, limit |-> limit],
             FbGetPixelEvents(fb, userId, limit), PgGetPixelEvents(pg, userId, limit))

GetAbandonedCarts ==
    \E userId \in Owners \cup {NonUuidId} :
        /\ Stored("abandonedCarts")
        /\ Read("getAbandonedCarts", [userId |-> userId],
             FbGetAbandonedCarts(fb, userId), PgGetAbandonedCarts(pg, userId))

NextListing ==
    \/ Tick
    \/ CreateUser
    \/ NewProduct
    \/ NewCheckoutPage
    \/ NewCoupon
    \/ NewCustomer
    \/ NewOrder
    \/ NewPixelEvent
    \/ NewAbandonedCart
    \/ DeleteProduct
    \/ GetProducts
    \/ GetCheckoutPages
    \/ GetCoupons
    \/ GetCustomers
    \/ GetOrders
    \/ GetPixelEvents
    \/ GetAbandonedCarts

SpecListing == Init /\ [][NextListing]_vars

(***************************************************************************)
(* Owner-scoped lookups: several owners, their coupons by code and their   *)
(* customers by email.                                                     *)
(***************************************************************************)
CreateOwner ==
    \E email \in Emails :
        /\ nextId \in Ids
        /\ Cardinality(DOMAIN fb["users"]) < MaxOwners
        /\ Step("createUser", [email |-> email],
                FbCreateUser(fb, nextId, [email |-> email]),
                PgCreateUser(pg, nextId, now, [email |-> email]), 1)

RoomForOwned ==
    /\ nextId \in Ids
    /\ Cardinality(DOMAIN fb["coupons"]) + Cardinality(DOMAIN fb["customers"]) < MaxOwned

OwnerCoupon ==
    \E u \in Owners, code \in Codes :
        /\ RoomForOwned
        /\ Step("createCoupon", [coupon |-> [userId |-> u, code |-> code]],
                FbCreateCoupon(fb, nextId, now, [userId |-> u, code |-> code]),
                PgCreateCoupon(pg, nextId, now, [userId |-> u, code |-> code]), 1)

OwnerCustomer ==
    \E u \in Owners, email \in Emails :
        /\ RoomForOwned
        /\ Step("createCustomer", [customer |-> [userId |-> u, email |-> email]],
                FbCreateCustomer(fb, nextId, now, [userId |-> u, email |-> email]),
                PgCreateCustomer(pg, nextId, now, [userId |-> u, email |-> email]), 1)

GetCouponByCode ==
    \E code \in Codes, u \in Owners :
        Read("getCouponByCode", [code |-> code, userId |-> u],
             FbGetCouponByCode(fb, code, u), PgGetCouponByCode(pg, code, u))

GetCustomerByEmail ==
    \E email \in Emails, u \in Owners :
        Read("getCustomerByEmail", [email |-> email, userId |-> u],
             FbGetCustomerByEmail(fb, email, u), PgGetCustomerByEmail(pg, email, u))

NextOwner ==
    \/ CreateOwner
    \/ OwnerCoupon
    \/ OwnerCustomer
    \/ GetCouponByCode
    \/ GetCustomerByEmail

SpecOwner == Init /\ [][NextOwner]_vars

(***************************************************************************)
(* Pages and orders: products with a price, checkout pages with a slug,    *)
(* and orders with their customer and items.  A behaviour holds pages or   *)
(* orders, with at most MaxOfKind entities of a kind, and creates an       *)
(* entity before the entities that reference its kind.                     *)
(***************************************************************************)
Prices == {1, 2}
Slugs == {1, 2}
OrderIds == DOMAIN fb["orders"] \cup PgRowIds(pg, "orders")

RoomOf(tbl, later) ==
    /\ nextId <= MaxOrderIds
    /\ Cardinality(DOMAIN fb[tbl] \cup PgRowIds(pg, tbl))
            < (IF tbl = "customers" THEN MaxBuyers ELSE MaxOfKind)
    /\ \A t \in later : ~Stored(t)

PricedProduct ==
    \E product \in {[userId |-> u, price |-> 1] : u \in UserIds} :
        /\ RoomOf("products", {"checkoutPages", "customers"})
        /\ Step("createProduct", [product |-> product],
                FbCreateProduct(fb, nextId, now, product),
                PgCreateProduct(pg, nextId, now, product), 1)

UpdatePrice ==
    \E id \in ProductIds, price \in Prices :
        Step("updateProduct", [id |-> id, data |-> [price |-> price]],
             FbUpdateProduct(fb, id, [price |-> price]),
             PgUpdateProduct(pg, id, [price |-> price]), 0)

SluggedPage ==
    \E page \in {[userId |-> u, productId |-> p, slug |-> slug] :
                    u \in UserIds, p \in ProductIds, slug \in Slugs} :
        /\ RoomOf("checkoutPages", {"customers"})
        /\ Step("createCheckoutPage", [page |-> page],
                FbCreateCheckoutPage(fb, nextId, now, page),
                PgCreateCheckoutPage(pg, nextId, now, page), 1)

UpdateSlug ==
    \E id \in CheckoutPageIds, slug \in Slugs :
        Step("updateCheckoutPage", [id |-> id, data |-> [slug |-> slug]],
             FbUpdateCheckoutPage(fb, id, [slug |-> slug]),
             PgUpdateCheckoutPage(pg, id, [slug |-> slug]), 0)

GetCheckoutPageBySlug ==
    \E slug \in Slugs :
        Read("getCheckoutPageBySlug", [slug |-> slug],
             FbGetCheckoutPageBySlug(fb, slug), PgGetCheckoutPageBySlug(pg, slug))

OrderCustomer ==
    \E customer \in {[userId |-> u, email |-> 1] : u \in UserIds} :
        /\ RoomOf("customers", {"checkoutPages", "orders"})
        /\ Step("createCustomer", [customer |-> customer],
                FbCreateCustomer(fb, nextId, now, customer),
                PgCreateCustomer(pg, nextId, now, customer), 1)

PlaceOrder ==
    \E order \in {[userId |-> u, customerId |-> c] : u \in UserIds, c \in CustomerIds} :
        /\ RoomOf("orders", {"orderItems"})
        /\ Step("createOrder", [order |-> order],
                FbCreateOrder(fb, nextId, now, order),
                PgCreateOrder(pg, nextId, now, order), 1)

CreateOrderItem ==
    \E item \in {[orderId |-> o, productId |-> p, price |-> 1] :
                    o \in OrderIds, p \in ProductIds} :
        /\ RoomOf("orderItems", {})
        /\ Step("createOrderItem", [item |-> item],
                FbCreateOrderItem(fb, nextId, item),
                PgCreateOrderItem(pg, nextId, now, item), 1)

GetOrder ==
    \E id \in OrderIds \cup NoIds :
        Read("getOrder", [id |-> id], FbGetOrder(fb, id), PgGetOrder(pg, id))

GetOrderItems ==
    \E orderId \in OrderIds \cup NoIds :
        Read("getOrderItems", [orderId |-> orderId],
             FbGetOrderItems(fb, orderId), PgGetOrderItems(pg, orderId))

NextOrder ==
    \/ CreateUser
    \/ PricedProduct
    \/ UpdatePrice
    \/ DeleteProduct
    \/ SluggedPage
    \/ UpdateSlug
    \/ GetCheckoutPage
    \/ GetCheckoutPages
    \/ GetCheckoutPageBySlug
    \/ OrderCustomer
    \/ PlaceOrder
    \/ CreateOrderItem
    \/ GetOrders
    \/ GetOrder
    \/ GetOrderItems

SpecOrder == Init /\ [][NextOrder]_vars

\* the calls that write products, orders and order items, and the item read
NextItems ==
    \/ CreateUser
    \/ PricedProduct
    \/ UpdatePrice
    \/ DeleteProduct
    \/ OrderCustomer
    \/ PlaceOrder
    \/ CreateOrderItem
    \/ GetOrderItems

SpecItems == Init /\ [][NextItems]_vars

(***************************************************************************)
(* The document backend when the store fails.  A call on a collection,     *)
(* `this.db.collection(c)...get()`, rejects with the error the store       *)
(* reports for c, if it reports one; a method that wraps its calls in      *)
(* try/catch returns its empty value for the error with code 5 and         *)
(* rethrows every other error.  `fault` maps each collection to the error  *)
(* its calls reject with, NoError for none.                                *)
(***************************************************************************)
NoError == ""
NotFound == "5 NOT_FOUND"
Unavailable == "14 UNAVAILABLE"
StoreErrors == {NotFound, Unavailable}
FaultyCollections ==
    {"products", "checkoutPages", "customers", "orders", "orderItems", "emailTemplates"}
\* no collection fails, or one does
Faults ==
    {[c \in Collections |-> NoError]} \cup
    {[c \in Collections |-> IF c = coll THEN e ELSE NoError] :
        coll \in FaultyCollections, e \in StoreErrors}

\* await this.db.collection(coll)...get(): it throws, or gives r
FsAwait(fault, coll, r) == IF fault[coll] # NoError THEN Err(fault[coll]) ELSE r

\* catch (error) { if (error.code === 5) return empty; throw error; }
Caught(r, empty) == IF IsErr(r) /\ r.err = NotFound THEN empty ELSE r

FtGetProduct(db, fault, id) ==
    Caught(FsAwait(fault, "products", FbGetProduct(db, id)), Absent)

FtGetProducts(db, fault, userId) ==
    {Caught(FsAwait(fault, "products", r), Listing(<<>>)) : r \in FbGetProducts(db, userId)}

FtGetCustomer(db, fault, id) ==
    Caught(FsAwait(fault, "customers", FbGetCustomer(db, id)), Absent)

\* the page is read inside the try block, and so is getProduct(page.productId)
FtGetCheckoutPage(db, fault, id) ==
    LET doc == FsAwait(fault, "checkoutPages", FbGetCheckoutPage(db, id))
    IN  Caught(IF ~IsOk(doc) THEN doc
               ELSE LET product == FtGetProduct(db, fault, Prop(doc.val, "productId"))
                    IN  IF IsErr(product) THEN product
                        ELSE Ok(With(doc.val, "product", Attached(product))),
               Absent)

\* the page query and the Promise.all over getProduct(page.productId) are both
\* awaited inside the try block
FtGetCheckoutPages(db, fault, userId) ==
    LET docs == FsWhere(FsDocs(db, "checkoutPages"), "userId", userId)
        product(page) == FtGetProduct(db, fault, Prop(page, "productId"))
        rejected == {r \in {Err(e) : e \in StoreErrors} :
                        \E doc \in docs : IsErr(product(doc.data)) /\
                                           product(doc.data).err = r.err}
    IN  IF fault["checkoutPages"] # NoError
            THEN {Caught(Err(fault["checkoutPages"]), Listing(<<>>))}
        ELSE IF rejected # {} THEN {Caught(r, Listing(<<>>)) : r \in rejected}
        ELSE {Listing(MapSeq(r.list, LAMBDA page :
                    With(page, "product", Attached(product(page))))) :
                r \in FbGetCheckoutPages(db, userId)}

FtGetEmailTemplates(db, fault, userId) ==
    {Caught(FsAwait(fault, "emailTemplates", r), Listing(<<>>)) :
        r \in FbGetEmailTemplates(db, userId)}

\* no try block
FtGetEmailTemplate(db, fault, id) ==
    FsAwait(fault, "emailTemplates", FbGetEmailTemplate(db, id))

\* no try block: the item query and the getProduct of each item reject the
\* call when they reject
FtGetOrderItems(db, fault, orderId) ==
    LET docs == FsWhere(FsDocs(db, "orderItems"), "orderId", orderId)
        product(doc) == FtGetProduct(db, fault, Prop(doc.data, "productId"))
        rejected == {r \in {Err(e) : e \in StoreErrors} :
                        \E doc \in docs : IsErr(product(doc)) /\ product(doc).err = r.err}
    IN  IF fault["orderItems"] # NoError THEN {Err(fault["orderItems"])}
        ELSE IF rejected # {} THEN rejected
        ELSE {Listing(MapSeq(s, LAMBDA doc :
                    With(FbItemWithProduct(db, doc), "product", Attached(product(doc))))) :
                s \in Perms(docs)}

\* no try block
FtGetOrder(db, fault, id) ==
    IF fault["orders"] # NoError THEN {Err(fault["orders"])}
    ELSE IF ~FsExists(db, "orders", id) THEN {Absent}
    ELSE LET order == WithIdCreatedAt(FsDoc(db, "orders", id))
             customer == FtGetCustomer(db, fault, Prop(order, "customerId"))
         IN  IF IsErr(customer) THEN {customer}
             ELSE {IF IsErr(items) THEN items
                   ELSE Ok(With(With(order, "customer", Attached(customer)),
                                "items", items.list)) :
                        items \in FtGetOrderItems(db, fault, id)}

\* the order query is awaited inside the try block; the Promise.all over the
\* orders is returned from it without an await, so a rejection of getCustomer
\* or of the item query of an order rejects the call and never reaches catch
FtGetOrders(db, fault, userId) ==
    LET docs == FsWhere(FsDocs(db, "orders"), "userId", userId)
        customer(order) == FtGetCustomer(db, fault, Prop(order, "customerId"))
        rejected ==
            {r \in {Err(e) : e \in StoreErrors} :
                \E doc \in docs :
                    IF IsErr(customer(doc.data)) THEN customer(doc.data).err = r.err
                    ELSE fault["orderItems"] = r.err}
    IN  IF fault["orders"] # NoError
            THEN {Caught(Err(fault["orders"]), Listing(<<>>))}
        ELSE IF rejected # {} THEN rejected
        ELSE {Listing(MapSeq(r.list, LAMBDA order :
                    With(order, "customer", Attached(customer(order))))) :
                r \in FbGetOrders(db, userId)}

\* a read of the document backend while the store reports `fault`
FaultyRead(op, args, fault, rs) ==
    \E r \in rs :
        /\ last' = [op |-> op, args |-> args, fault |-> fault, fb |-> r]
        /\ UNCHANGED <<fb, pg, nextId, now, env, storage, calls, firebaseApp, firestoreDb, adminApps>>

EmailTemplateIds == DOMAIN fb["emailTemplates"]

CreateEmailTemplate ==
    \E template \in {[userId |-> u] : u \in UserIds} :
        /\ RoomOf("emailTemplates", {"products"})
        /\ Step("createEmailTemplate", [template |-> template],
                FbCreateEmailTemplate(fb, nextId, template),
                PgCreateEmailTemplate(pg, nextId, now, template), 1)

FaultyProduct ==
    \E fault \in Faults : fault["products"] # NoError /\
      \/ \E id \in ProductIds \cup {GhostId} :
            FaultyRead("getProduct", [id |-> id], fault, {FtGetProduct(fb, fault, id)})
      \/ \E userId \in UserIds :
            FaultyRead("getProducts", [userId |-> userId], fault,
                       FtGetProducts(fb, fault, userId))

FaultyCheckoutPage ==
    \E fault \in Faults, id \in CheckoutPageIds \cup {GhostId} :
        /\ fault["products"] # NoError \/ fault["checkoutPages"] # NoError
        /\ FaultyRead("getCheckoutPage", [id |-> id], fault,
                      {FtGetCheckoutPage(fb, fault, id)})

FaultyCheckoutPages ==
    \E fault \in Faults, userId \in UserIds :
        /\ fault["products"] # NoError \/ fault["checkoutPages"] # NoError
        /\ FaultyRead("getCheckoutPages", [userId |-> userId], fault,
                      FtGetCheckoutPages(fb, fault, userId))

FaultyEmailTemplate ==
    \E fault \in Faults : fault["emailTemplates"] # NoError /\
      \/ \E id \in EmailTemplateIds \cup {GhostId} :
            FaultyRead("getEmailTemplate", [id |-> id], fault,
                       {FtGetEmailTemplate(fb, fault, id)})
      \/ \E userId \in UserIds :
            FaultyRead("getEmailTemplates", [userId |-> userId], fault,
                       FtGetEmailTemplates(fb, fault, userId))

FaultyOrders ==
    \E fault \in Faults, userId \in UserIds :
        /\ \E c \in {"orders", "customers", "orderItems"} : fault[c] # NoError
        /\ FaultyRead("getOrders", [userId |-> userId], fault,
                      FtGetOrders(fb, fault, userId))

FaultyOrder ==
    \E fault \in Faults, id \in OrderIds \cup {GhostId} :
        /\ \E c \in {"orders", "customers", "orderItems", "products"} : fault[c] # NoError
        /\ FaultyRead("getOrder", [id |-> id], fault, FtGetOrder(fb, fault, id))

FaultyOrderItems ==
    \E fault \in Faults, orderId \in OrderIds \cup {GhostId} :
        /\ fault["orderItems"] # NoError \/ fault["products"] # NoError
        /\ FaultyRead("getOrderItems", [orderId |-> orderId], fault,
                      FtGetOrderItems(fb, fault, orderId))

NextFault ==
    \/ CreateUser
    \/ CreateEmailTemplate
    \/ PricedProduct
    \/ SluggedPage
    \/ OrderCustomer
    \/ PlaceOrder
    \/ CreateOrderItem
    \/ FaultyProduct
    \/ FaultyCheckoutPage
    \/ FaultyCheckoutPages
    \/ FaultyEmailTemplate
    \/ FaultyOrders
    \/ FaultyOrder
    \/ FaultyOrderItems

SpecFault == Init /\ [][NextFault]_vars

(***************************************************************************)
(* The selected backend.  The module is loaded with any value of the flag; *)
(* `storage` is the instance made at load, and every call of the routes is *)
(* `storage.<method>(...)`, so it reaches that backend only.  The flag may *)
(* change while the process runs.                                          *)
(***************************************************************************)
MaxServedIds == 3

InitSelect == \E e \in DatabaseTypes : Loaded(e)

\* process.env.DATABASE_TYPE = e, after the module is loaded
SetEnv ==
    \E e \in DatabaseTypes \ {env} :
        /\ env' = e
        /\ UNCHANGED <<fb, pg, nextId, now, last, storage, calls, firebaseApp, firestoreDb, adminApps>>

\* storage.<op>(args): f is the outcome in the document backend and p the
\* outcome in the relational backend; the instance decides which one is made
Served(op, args, f, p, ids) ==
    /\ fb' = IF storage = "firebase" THEN f.db ELSE fb
    /\ pg' = IF storage = "firebase" THEN pg ELSE p.db
    /\ last' = [op |-> op, args |-> args, served |-> storage,
                res |-> IF storage = "firebase" THEN f.res ELSE p.res]
    /\ nextId' = nextId + ids
    /\ UNCHANGED <<now, env, storage, calls, firebaseApp, firestoreDb, adminApps>>

ServedCreateUser ==
    \E email \in Emails :
        /\ nextId <= MaxServedIds
        /\ Served("createUser", [email |-> email],
                  FbCreateUser(fb, nextId, [email |-> email]),
                  PgCreateUser(pg, nextId, now, [email |-> email]), 1)

ServedCreateProduct ==
    \E product \in {[userId |-> u, price |-> 1] : u \in UserIds} :
        /\ nextId <= MaxServedIds
        /\ Served("createProduct", [product |-> product],
                  FbCreateProduct(fb, nextId, now, product),
                  PgCreateProduct(pg, nextId, now, product), 1)

ServedGetProduct ==
    \E id \in ProductIds \cup {GhostId} :
        Served("getProduct", [id |-> id],
               Out(fb, FbGetProduct(fb, id)), Out(pg, PgGetProduct(pg, id)), 0)

NextSelect ==
    \/ SetEnv
    \/ ServedCreateUser
    \/ ServedCreateProduct
    \/ ServedGetProduct

SpecSelect == InitSelect /\ [][NextSelect]_vars

(***************************************************************************)
(* Concurrent storage calls.  A method of the document backend runs one    *)
(* store call per await, and the calls of other processes run in between;  *)
(* a method of the relational backend is one statement.  The calls go to   *)
(* the instance selected at load.                                          *)
(***************************************************************************)
InitRace == \E e \in {"firebase", "postgres"} : Loaded(e)

ServedCreateEmailTemplate ==
    \E template \in {[userId |-> u] : u \in UserIds} :
        /\ nextId <= MaxServedIds
        /\ Served("createEmailTemplate", [template |-> template],
                  FbCreateEmailTemplate(fb, nextId, template),
                  PgCreateEmailTemplate(pg, nextId, now, template), 1)

\* the collections whose updates and deletes are run concurrently
RacedCollections == {"products", "emailTemplates"}
\* the ids generated so far
GeneratedIds == 1 .. nextId - 1
\* the partial an update carries
PartialOf(coll) == IF coll = "products" THEN [price |-> 2] ELSE [isActive |-> False]

\* process p's call goes on to the state c, with the stores f and g
Advance(p, f, g, c) ==
    /\ fb' = f
    /\ pg' = g
    /\ calls' = [calls EXCEPT ![p] = c]
    /\ UNCHANGED <<nextId, now, last, env, storage, firebaseApp, firestoreDb, adminApps>>

\* the call has returned or thrown res
Done(call, res) == With(With(call, "pc", "done"), "res", res)

\* update<Entity>(id, data): doc = await docRef.get(); if (!doc.exists) return undefined
UpdateGet ==
    \E p \in Procs, coll \in RacedCollections, id \in GeneratedIds :
        LET call == [op |-> "update", coll |-> coll, id |-> id,
                     data |-> PartialOf(coll), pc |-> "update"]
        IN  /\ storage = "firebase"
            /\ calls[p] = Idle
            /\ Advance(p, fb, pg,
                       IF FsExists(fb, coll, id) THEN call ELSE Done(call, Absent))

\* await docRef.update(serializeForFirestore(data)): the store rejects the
\* update of a document that does not exist with code 5
UpdateWrite ==
    \E p \in Procs :
        /\ calls[p].op = "update"
        /\ calls[p].pc = "update"
        /\ LET c == calls[p]
           IN  IF ~FsExists(fb, c.coll, c.id)
               THEN Advance(p, fb, pg, Done(c, Err(NotFound)))
               ELSE Advance(p, FsUpdate(fb, c.coll, c.id, serializeForFirestore(c.data)),
                            pg, With(c, "pc", "reread"))

\* updated = await docRef.get(), then the returned object: updated.data() is
\* undefined for a document that is gone, so { id, ...updated.data() } is { id }
\* and updatedData.createdAt throws a TypeError
UpdateReread ==
    \E p \in Procs :
        /\ calls[p].op = "update"
        /\ calls[p].pc = "reread"
        /\ LET c == calls[p]
           IN  Advance(p, fb, pg,
                   IF FsExists(fb, c.coll, c.id)
                   THEN Done(c, Ok(IF c.coll = "products"
                                   THEN WithIdCreatedAt(FsDoc(fb, c.coll, c.id))
                                   ELSE IdThenData(FsDoc(fb, c.coll, c.id))))
                   ELSE IF c.coll = "products" THEN Done(c, Err("TypeError"))
                   ELSE Done(c, Ok([id |-> c.id])))

\* delete<Entity>(id): doc = await docRef.get(); if (!doc.exists) return false
DeleteGet ==
    \E p \in Procs, coll \in RacedCollections, id \in GeneratedIds :
        LET call == [op |-> "delete", coll |-> coll, id |-> id, pc |-> "delete"]
        IN  /\ storage = "firebase"
            /\ calls[p] = Idle
            /\ Advance(p, fb, pg,
                       IF FsExists(fb, coll, id) THEN call
                       ELSE Done(call, Deleted(False)))

\* await docRef.delete(); return true
DeleteWrite ==
    \E p \in Procs :
        /\ calls[p].op = "delete"
        /\ calls[p].pc = "delete"
        /\ Advance(p, FsDelete(fb, calls[p].coll, calls[p].id), pg,
                   Done(calls[p], Deleted(True)))

\* db.delete(table).where(eq(id)).returning(): one statement
DeleteRows ==
    \E p \in Procs, coll \in RacedCollections, id \in GeneratedIds :
        LET call == [op |-> "delete", coll |-> coll, id |-> id, pc |-> "delete"]
            deleted == PgDelete(pg, coll, id)
        IN  /\ storage = "postgres"
            /\ calls[p] = Idle
            /\ Advance(p, fb, deleted.db, Done(call, deleted.res))

NextRace ==
    \/ ServedCreateUser
    \/ ServedCreateProduct
    \/ ServedCreateEmailTemplate
    \/ UpdateGet
    \/ UpdateWrite
    \/ UpdateReread
    \/ DeleteGet
    \/ DeleteWrite
    \/ DeleteRows

SpecRace == InitRace /\ [][NextRace]_vars

(***************************************************************************)
(* Concurrent requests.  Every route starts with getCurrentUserId(), which *)
(* awaits storage.getUserByEmail and then, for no user, storage.createUser.*)
(***************************************************************************)
StoreOf(b) == IF b = "firebase" THEN fb ELSE pg

\* user = await storage.getUserByEmail("demo@example.com")
SignInGet ==
    \E p \in Procs, user \in StGetUserByEmail(storage, StoreOf(storage), DemoEmail) :
        LET call == [op |-> "getCurrentUserId", pc |-> "create"]
        IN  /\ calls[p] = Idle
            /\ Advance(p, fb, pg,
                       IF IsErr(user) THEN Done(call, user)
                       ELSE IF IsOk(user) THEN Done(call, Ok(user.val.id))
                       ELSE call)

\* if (!user) user = await storage.createUser({ email: "demo@example.com", ... })
SignInCreate ==
    \E p \in Procs :
        /\ calls[p].op = "getCurrentUserId"
        /\ calls[p].pc = "create"
        /\ nextId <= MaxServedIds
        /\ LET created == StCreateUser(storage, StoreOf(storage), nextId, now,
                                       [email |-> DemoEmail])
           IN  /\ fb' = IF storage = "firebase" THEN created.db ELSE fb
               /\ pg' = IF storage = "firebase" THEN pg ELSE created.db
               /\ calls' = [calls EXCEPT ![p] =
                                Done(@, IF IsErr(created.res) THEN created.res
                                        ELSE Ok(created.res.val.id))]
               /\ nextId' = nextId + 1
               /\ UNCHANGED <<now, last, env, storage, firebaseApp, firestoreDb, adminApps>>

\* the response is sent, and the process takes the next request
SignInReturn ==
    \E p \in Procs :
        /\ calls[p].op = "getCurrentUserId"
        /\ calls[p].pc = "done"
        /\ Advance(p, fb, pg, Idle)

\* a user with another address is created meanwhile
CreateOtherUser ==
    /\ nextId <= MaxServedIds
    /\ Served("createUser", [email |-> DemoEmail + 1],
              FbCreateUser(fb, nextId, [email |-> DemoEmail + 1]),
              PgCreateUser(pg, nextId, now, [email |-> DemoEmail + 1]), 1)

NextSignIn ==
    \/ CreateOtherUser
    \/ SignInGet
    \/ SignInCreate
    \/ SignInReturn

SpecSignIn == InitRace /\ [][NextSignIn]_vars

(***************************************************************************)
(* Updates whose partial carries an id field, as the PATCH routes forward  *)
(* the request body to update<Entity> as it is.                            *)
(***************************************************************************)
\* the partials: a field of the entity, or an id, stored or not
IdPartials(ids) == {[isActive |-> False]} \cup {[id |-> x] : x \in ids \cup {GhostId}}

UpdateProductId ==
    \E id \in ProductIds, data \in IdPartials(ProductIds) :
        Step("updateProduct", [id |-> id, data |-> data],
             FbUpdateProduct(fb, id, data), PgUpdateProduct(pg, id, data), 0)

UpdateEmailTemplate ==
    \E id \in EmailTemplateIds, data \in IdPartials(EmailTemplateIds) :
        Step("updateEmailTemplate", [id |-> id, data |-> data],
             FbUpdateEmailTemplate(fb, id, data),
             PgUpdateEmailTemplate(pg, id, data), 0)

GetEmailTemplate ==
    \E id \in EmailTemplateIds \cup PgRowIds(pg, "emailTemplates") :
        Read("getEmailTemplate", [id |-> id],
             {FbGetEmailTemplate(fb, id)}, {PgGetEmailTemplate(pg, id)})

GetEmailTemplates ==
    \E userId \in UserIds :
        Read("getEmailTemplates", [userId |-> userId],
             FbGetEmailTemplates(fb, userId), PgGetEmailTemplates(pg, userId))

\* products or email templates, not both
IdentityProduct == ~Stored("emailTemplates") /\ PricedProduct

NextIdentity ==
    \/ CreateUser
    \/ CreateEmailTemplate
    \/ IdentityProduct
    \/ UpdateProductId
    \/ UpdateEmailTemplate
    \/ GetProduct
    \/ GetProducts
    \/ GetEmailTemplate
    \/ GetEmailTemplates

SpecIdentity == Init /\ [][NextIdentity]_vars

(***************************************************************************)
(* Creates whose input carries its own id or createdAt, each followed by   *)
(* the get of what the create returned.                                    *)
(***************************************************************************)
MaxRoundTripIds == 5

\* the fields an input may carry beside the required ones
OwnFields == Optional("id", {GhostId}) \cup Optional("createdAt", {now + 1})

RoundTripProduct ==
    \E u \in UserIds, own \in OwnFields :
        LET product == [userId |-> u, price |-> 1] @@ own
        IN  /\ nextId <= MaxRoundTripIds
            /\ Step("createProduct", [product |-> product],
                    FbCreateProduct(fb, nextId, now, product),
                    PgCreateProduct(pg, nextId, now, product), 1)

RoundTripCustomer ==
    \E u \in UserIds, own \in OwnFields :
        LET customer == [userId |-> u, email |-> 1] @@ own
        IN  /\ nextId <= MaxRoundTripIds
            /\ Step("createCustomer", [customer |-> customer],
                    FbCreateCustomer(fb, nextId, now, customer),
                    PgCreateCustomer(pg, nextId, now, customer), 1)

GetCustomer ==
    \E id \in CustomerIds \cup {GhostId} :
        Read("getCustomer", [id |-> id], {FbGetCustomer(fb, id)}, {PgGetCustomer(pg, id)})

NextRoundTrip ==
    \/ CreateUser
    \/ RoundTripProduct
    \/ RoundTripCustomer
    \/ GetProduct
    \/ GetCustomer

SpecRoundTrip == Init /\ [][NextRoundTrip]_vars

(***************************************************************************)
(* Requests to the product routes and to GET /api/orders/:id.              *)
(***************************************************************************)
MaxRouteIds == 4

ProductBodies == {[price |-> 1], [price |-> 1, isActive |-> False], <<>>}

RouteGetProduct ==
    \E id \in ProductIds \cup NoIds :
        Step("GET /api/products/:id", [id |-> id],
             GetProductsId("firebase", fb, id), GetProductsId("postgres", pg, id), 0)

RoutePostProduct ==
    \E body \in ProductBodies :
        /\ nextId + DemoIds <= MaxRouteIds
        /\ \E f \in PostProducts("firebase", fb, nextId, nextId + DemoIds, now, body),
              p \in PostProducts("postgres", pg, nextId, nextId + DemoIds, now, body) :
                Step("POST /api/products", [body |-> body], f, p, DemoIds + 1)

RoutePatchProduct ==
    \E id \in ProductIds \cup NoIds, body \in ProductPartials :
        Step("PATCH /api/products/:id", [id |-> id, body |-> body],
             PatchProductsId("firebase", fb, id, body),
             PatchProductsId("postgres", pg, id, body), 0)

RouteDeleteProduct ==
    \E id \in ProductIds \cup NoIds :
        Step("DELETE /api/products/:id", [id |-> id],
             DeleteProductsId("firebase", fb, id),
             DeleteProductsId("postgres", pg, id), 0)

RouteGetOrder ==
    \E id \in OrderIds \cup NoIds :
        \E f \in GetOrdersId("firebase", fb, id), p \in GetOrdersId("postgres", pg, id) :
            Step("GET /api/orders/:id", [id |-> id], f, p, 0)

NextRoutes ==
    \/ RoutePostProduct
    \/ RouteGetProduct
    \/ RoutePatchProduct
    \/ RouteDeleteProduct
    \/ OrderCustomer
    \/ PlaceOrder
    \/ RouteGetOrder

SpecRoutes == Init /\ [][NextRoutes]_vars

(***************************************************************************)
(* Requests to the product routes against products of several owners: the  *)
(* demo user the routes sign in, and a second user of the same store.      *)
(***************************************************************************)
SecondUser ==
    /\ nextId <= MaxRouteIds
    /\ \A u \in UserIds : u \in DemoUserIds("firebase") \cup DemoUserIds("postgres")
    /\ Step("createUser", [email |-> DemoEmail + 1],
            FbCreateUser(fb, nextId, [email |-> DemoEmail + 1]),
            PgCreateUser(pg, nextId, now, [email |-> DemoEmail + 1]), 1)

ProductOf ==
    \E product \in {[userId |-> u, price |-> 1] : u \in UserIds} :
        /\ nextId <= MaxRouteIds
        /\ Step("createProduct", [product |-> product],
                FbCreateProduct(fb, nextId, now, product),
                PgCreateProduct(pg, nextId, now, product), 1)

\* a request body that names an owner of its own
RoutePostProductAs ==
    \E body \in {[price |-> 1, userId |-> u] : u \in Owners} :
        /\ nextId + DemoIds <= MaxRouteIds
        /\ \E f \in PostProducts("firebase", fb, nextId, nextId + DemoIds, now, body),
              p \in PostProducts("postgres", pg, nextId, nextId + DemoIds, now, body) :
                Step("POST /api/products", [body |-> body], f, p, DemoIds + 1)

RoutePatchProductAs ==
    \E id \in ProductIds, body \in {[isActive |-> False]} \cup {[userId |-> u] : u \in UserIds} :
        Step("PATCH /api/products/:id", [id |-> id, body |-> body],
             PatchProductsId("firebase", fb, id, body),
             PatchProductsId("postgres", pg, id, body), 0)

NextOwnership ==
    \/ SecondUser
    \/ ProductOf
    \/ RoutePostProductAs
    \/ RoutePatchProductAs
    \/ RouteDeleteProduct

SpecOwnership == Init /\ [][NextOwnership]_vars

(***************************************************************************)
(* Calls of initializeFirebase and getFirestore, and of a storage method   *)
(* of the document backend, which reads `this.db` through getFirestore.    *)
(***************************************************************************)
MaxFirestoreIds == 3

ModuleNow == Module(firebaseApp, firestoreDb, adminApps)

Initialised(op, key, sdk, r) ==
    /\ firebaseApp' = r.m.app
    /\ firestoreDb' = r.m.db
    /\ adminApps' = r.m.apps
    /\ last' = [op |-> op, args |-> [key |-> key, sdk |-> sdk], res |-> r.res]

InitializeFirebase ==
    \E key \in ServiceAccountKeys, sdk \in SdkFailures :
        /\ Initialised("initializeFirebase", key, sdk, initializeFirebase(ModuleNow, key, sdk))
        /\ UNCHANGED <<fb, pg, nextId, now, env, storage, calls>>

GetFirestore ==
    \E key \in ServiceAccountKeys, sdk \in SdkFailures :
        /\ Initialised("getFirestore", key, sdk, getFirestore(ModuleNow, key, sdk))
        /\ UNCHANGED <<fb, pg, nextId, now, env, storage, calls>>

FirestoreCreateUser ==
    \E key \in ServiceAccountKeys, sdk \in SdkFailures, email \in Emails :
        LET r == DbCreateUser(fb, ModuleNow, key, sdk, nextId, [email |-> email])
        IN  /\ nextId <= MaxFirestoreIds
            /\ Initialised("createUser", key, sdk, r)
            /\ fb' = r.db
            /\ nextId' = nextId + 1
            /\ UNCHANGED <<pg, now, env, storage, calls>>

InitFirestore == Loaded("firebase")

NextFirestore ==
    \/ InitializeFirebase
    \/ GetFirestore
    \/ FirestoreCreateUser

SpecFirestore == InitFirestore /\ [][NextFirestore]_vars

(***************************************************************************)
(* Orders whose items carry a download token with an expiry time.          *)
(***************************************************************************)
TokenItem ==
    \E o \in OrderIds, p \in ProductIds,
       expiry \in Optional("tokenExpiresAt", {Null, now + 1}) :
        LET item == [orderId |-> o, productId |-> p, price |-> 1] @@ expiry
        IN  /\ RoomOf("orderItems", {})
            /\ Step("createOrderItem", [item |-> item],
                    FbCreateOrderItem(fb, nextId, item),
                    PgCreateOrderItem(pg, nextId, now, item), 1)

NextDates ==
    \/ CreateUser
    \/ PricedProduct
    \/ OrderCustomer
    \/ PlaceOrder
    \/ TokenItem
    \/ GetOrders
    \/ GetOrder
    \/ GetOrderItems

SpecDates == Init /\ [][NextDates]_vars

(***************************************************************************)
(* The listing claims C7 and C8, under SpecListing.                        *)
(***************************************************************************)
\* the table a listing reads
ListedTableOf(op) ==
    CASE op = "getProducts" -> "products"
      [] op = "getCheckoutPages" -> "checkoutPages"
      [] op = "getCoupons" -> "coupons"
      [] op = "getCustomers" -> "customers"
      [] op = "getOrders" -> "orders"
      [] op = "getPixelEvents" -> "pixelEvents"
      [] op = "getAbandonedCarts" -> "abandonedCarts"
Listings ==
    {"getProducts", "getCheckoutPages", "getCoupons", "getCustomers", "getOrders",
     "getPixelEvents", "getAbandonedCarts"}
Listed == last.op \in Listings

\* the ids of the entities of tbl that backend b stores for the owner
OwnedIds(b, tbl, userId) ==
    IF b = "firebase"
    THEN {id \in DOMAIN fb[tbl] : Prop(fb[tbl][id], "userId") = userId}
    ELSE {r.id : r \in {x \in pg[tbl] : x.userId = userId}}

CreatedAts(s) == [i \in 1 .. Len(s) |-> s[i].createdAt]

C8_ExactlyTheOwners ==
    Listed =>
        \A b \in Backends :
            /\ IsOk(Returned(b))
            /\ {Returned(b).list[i].id : i \in 1 .. Len(Returned(b).list)}
                    = OwnedIds(b, ListedTableOf(last.op), last.args.userId)
            /\ Len(Returned(b).list)
                    = Cardinality(OwnedIds(b, ListedTableOf(last.op), last.args.userId))

(***************************************************************************)
(* The catalog claims C4, C5, C9 and C10, under Spec.                      *)
(***************************************************************************)
\* the ids stored in tbl by backend b, in the stores f (documents) and p (rows)
IdsIn(b, f, p, tbl) == IF b = "firebase" THEN DOMAIN f[tbl] ELSE PgRowIds(p, tbl)

\* get<Entity>(id), list by owner and delete<Entity>(id) of backend b
GetIn(b, f, p, tbl, id) ==
    CASE tbl = "users" -> IF b = "firebase" THEN FbGetUser(f, id) ELSE PgGetUser(p, id)
      [] tbl = "products" ->
            IF b = "firebase" THEN FbGetProduct(f, id) ELSE PgGetProduct(p, id)
      [] tbl = "checkoutPages" ->
            IF b = "firebase" THEN FbGetCheckoutPage(f, id) ELSE PgGetCheckoutPage(p, id)

ListIn(b, f, p, tbl, userId) ==
    CASE tbl = "products" ->
            IF b = "firebase" THEN FbGetProducts(f, userId) ELSE PgGetProducts(p, userId)
      [] tbl = "checkoutPages" ->
            IF b = "firebase" THEN FbGetCheckoutPages(f, userId)
            ELSE PgGetCheckoutPages(p, userId)

DeleteIn(b, f, p, tbl, id) ==
    CASE tbl = "products" ->
            IF b = "firebase" THEN FbDeleteProduct(f, id) ELSE PgDeleteProduct(p, id)
      [] tbl = "checkoutPages" ->
            IF b = "firebase" THEN FbDeleteCheckoutPage(f, id)
            ELSE PgDeleteCheckoutPage(p, id)

\* the table a call of the catalog is about
TableOf(op) ==
    CASE op \in {"createUser", "getUser"} -> "users"
      [] op \in {"createProduct", "getProduct", "getProducts", "updateProduct",
                 "deleteProduct"} -> "products"
      [] OTHER -> "checkoutPages"

\* an entity as a client sees it: a field that holds null reads like a field
\* that is missing; the attached product of a page is compared likewise
Fields(e) == {k \in DOMAIN e : k = "product" \/ e[k] # Null}
Seen(e) == [k \in Fields(e) \ {"product"} |-> e[k]]
SeenProduct(e) ==
    IF Has(e, "product") /\ Has(e.product, "id") THEN Seen(e.product) ELSE Absent
SameEntity(x, y) == Seen(x) = Seen(y) /\ SeenProduct(x) = SeenProduct(y)

\* two results are the same outcome: both absent, both an error, the same
\* boolean, the same entity, or lists of the same entities with the same
\* creation times position by position
SameResult(op, x, y) ==
    /\ x.tag = y.tag
    /\ IsOk(x) =>
        IF op \in {"deleteProduct", "deleteCheckoutPage"} THEN x = y
        ELSE IF op \in {"getProducts", "getCheckoutPages"}
            THEN /\ Len(x.list) = Len(y.list)
                 /\ \A i \in 1 .. Len(x.list) :
                        /\ x.list[i].createdAt = y.list[i].createdAt
                        /\ \E j \in 1 .. Len(y.list) : SameEntity(x.list[i], y.list[j])
        ELSE SameEntity(x.val, y.val)

CatalogCall == last.op \notin {"init", "POST /api/coupons", "POST /api/coupons/validate",
                               "PATCH /api/coupons/:id", "createCoupon", "updateCoupon"}

\* C4: every call of the storage contract returns the same outcome from the
\* relational and the document backend, both started empty and given the same
\* calls: the same fields, list order, absent, false and error outcomes.
C4_BackendParity ==
    CatalogCall => SameResult(last.op, last.fb, last.pg)

\* the value createProduct must give field f: the default d when the input
\* has no such field, the supplied value otherwise; a supplied null counts as
\* a value or as no value according to nullIsValue
Hydrated(input, f, d, nullIsValue) ==
    IF ~Has(input, f) \/ input[f] = Undefined THEN d
    ELSE IF input[f] = Null /\ ~nullIsValue THEN d
    ELSE input[f]

\* C5: createProduct returns and persists downloadLimit = 5 and isActive = true
\* for an input without the field and the supplied value for an input with it,
\* in both backends, and getProduct on the returned id shows the same values.
C5_ProductDefaults ==
    last.op = "createProduct" =>
        \E nullIsValue \in BOOLEAN :
            \A b \in Backends :
                IsOk(Returned(b)) =>
                    LET input == last.args.product
                        created == Returned(b).val
                        got == GetIn(b, fb, pg, "products", created.id)
                        dl == Hydrated(input, "downloadLimit", DownloadLimitDefault,
                                       nullIsValue)
                        act == Hydrated(input, "isActive", True, nullIsValue)
                    IN  /\ created.downloadLimit = dl /\ created.isActive = act
                        /\ IsOk(got)
                        /\ got.val.downloadLimit = dl /\ got.val.isActive = act

\* C9: get<Entity>(id) returns the absent value, and no error, for an id that
\* names no stored entity, and the entity with that id when one is stored.
C9_GetAbsentOrEntity ==
    last.op \in {"getUser", "getProduct", "getCheckoutPage"} =>
        \A b \in Backends :
            IF last.args.id \in IdsIn(b, fb, pg, TableOf(last.op))
            THEN IsOk(Returned(b)) /\ Returned(b).val.id = last.args.id
            ELSE Returned(b) = Absent

\* what backend b returned for the call a step makes
ReturnedNext(b) == IF b = "firebase" THEN last'.fb ELSE last'.pg

\* C10: delete<Entity>(id) returns true exactly when the id was stored before
\* the call and false otherwise; after true, get<Entity>(id) is absent, no
\* listing holds the id and a second delete returns false; after false the
\* store is as before.
C10_DeleteAsSpecified ==
    [][last'.op \in {"deleteProduct", "deleteCheckoutPage"} /\ last' # last =>
        \A b \in Backends :
            LET tbl == TableOf(last'.op)
                id == last'.args.id
                stored == id \in IdsIn(b, fb, pg, tbl)
                r == ReturnedNext(b)
            IN  /\ r = Deleted(True) <=> stored
                /\ r = Deleted(False) <=> ~stored
                /\ r = Deleted(True) =>
                    /\ GetIn(b, fb', pg', tbl, id) = Absent
                    /\ \A u \in Owners : \A l \in ListIn(b, fb', pg', tbl, u) :
                            IsOk(l) /\ \A i \in 1 .. Len(l.list) : l.list[i].id # id
                    /\ DeleteIn(b, fb', pg', tbl, id).res = Deleted(False)
                /\ r = Deleted(False) => fb' = fb /\ pg' = pg]_vars

\* the store of backend b without the entity id of tbl
Others(b, f, p, tbl, id) ==
    IF b = "firebase"
    THEN [f EXCEPT ![tbl] = [k \in DOMAIN @ \ {id} |-> @[k]]]
    ELSE [p EXCEPT ![tbl] = {r \in @ : r.id # id}]

\* the fields a partial supplies: those it holds with a value other than undefined
Supplied(data) == {k \in DOMAIN data : data[k] # Undefined}

\* C11: updateProduct(id, partial) on a stored id returns the entity with the
\* supplied fields set and every other field as before, and changes no other
\* entity; on an id that is not stored it returns 'not found' and changes
\* nothing.  A field supplied as undefined counts as absent.
C11_UpdateAsSpecified ==
    [][last'.op = "updateProduct" /\ last' # last =>
        \A b \in Backends :
            LET id == last'.args.id
                data == last'.args.data
                r == ReturnedNext(b)
                before == GetIn(b, fb, pg, "products", id)
            IN  IF id \in IdsIn(b, fb, pg, "products")
                THEN /\ IsOk(r)
                     /\ \A k \in Supplied(data) : r.val[k] = data[k]
                     /\ \A k \in DOMAIN before.val \ Supplied(data) :
                            r.val[k] = before.val[k]
                     /\ GetIn(b, fb', pg', "products", id) = r
                     /\ Others(b, fb', pg', "products", id)
                            = Others(b, fb, pg, "products", id)
                ELSE /\ r = Absent
                     /\ fb' = fb /\ pg' = pg]_vars

\* the ids of the users backend b stores
StoredUserIds(b) == IdsIn(b, fb, pg, "users")

\* C14: in either backend every stored entity's userId names a stored user.
C14_OwnersAreUsers ==
    \A b \in Backends :
        /\ \A tbl \in Tables \ {"users", "orderItems"} :
            \A id \in IdsIn(b, fb, pg, tbl) :
                \E e \in IF b = "firebase" THEN {fb[tbl][id]}
                         ELSE {r \in pg[tbl] : r.id = id} :
                    Prop(e, "userId") \in StoredUserIds(b)

(***************************************************************************)
(* The owner-scoped lookups: claim C12, under SpecOwner.                   *)
(***************************************************************************)
\* the stored customers of backend b, as its reads return them
StoredCustomers(b) ==
    IF b = "firebase"
    THEN {WithIdCreatedAt(doc) : doc \in FsDocs(fb, "customers")}
    ELSE pg["customers"]

\* C12: two owners may each create a coupon with the same code, and a customer
\* with the same email, without a failure; getCouponByCode(code, owner) returns
\* a coupon with that code and that owner, and absent when the owner has none
\* even if another owner has one; getCustomerByEmail(email, owner) likewise.
C12_OwnerScoped ==
    \A b \in Backends :
        /\ last.op = "createCoupon" /\ last.args.coupon.userId \in StoredUserIds(b)
                => IsOk(Returned(b))
        /\ last.op = "createCustomer" /\ last.args.customer.userId \in StoredUserIds(b)
                => IsOk(Returned(b))
        /\ last.op = "getCouponByCode" =>
                LET own == {c \in StoredCoupons(b) :
                                c.code = last.args.code /\ c.userId = last.args.userId}
                IN  IF own = {} THEN Returned(b) = Absent
                    ELSE IsOk(Returned(b)) /\ Returned(b).val \in own
        /\ last.op = "getCustomerByEmail" =>
                LET own == {c \in StoredCustomers(b) :
                                c.email = last.args.email /\ c.userId = last.args.userId}
                IN  IF own = {} THEN Returned(b) = Absent
                    ELSE IsOk(Returned(b)) /\ Returned(b).val \in own

\* two owners hold a coupon with the same code in both backends, and the
\* lookup for one of them returned that owner's coupon
C12_Witness ==
    /\ last.op = "getCouponByCode"
    /\ \A b \in Backends :
        /\ IsOk(Returned(b))
        /\ Returned(b).val.userId = last.args.userId
        /\ \E c \in StoredCoupons(b) :
                c.code = last.args.code /\ c.userId # last.args.userId

(***************************************************************************)
(* Pages and orders: claims C13 and C15 under SpecOrder, C18 under         *)
(* SpecItems.                                                              *)
(***************************************************************************)
\* the entities of tbl that backend b stores, as its reads return them, in
\* the stores f (documents) and p (rows)
Entities(b, f, p, tbl) ==
    IF b = "firebase" THEN {WithIdCreatedAt(doc) : doc \in FsDocs(f, tbl)} ELSE p[tbl]

\* the stored entity of tbl that the reference id names, or the absent value
Referenced(b, tbl, id) ==
    LET named == {e \in Entities(b, fb, pg, tbl) : e.id = id}
    IN  IF named = {} THEN Absent ELSE CHOOSE e \in named : TRUE

\* the page carries the product its productId names
PageWithItsProduct(b, page) ==
    page.product = Referenced(b, "products", page.productId)

\* the items are the stored items of the order, each once, with their
\* products when the fetch attaches them
ItemsOfOrder(b, items, orderId, withProducts) ==
    LET stored == {e \in Entities(b, fb, pg, "orderItems") : e.orderId = orderId}
    IN  /\ {items[i].id : i \in 1 .. Len(items)} = {e.id : e \in stored}
        /\ Len(items) = Cardinality(stored)
        /\ \A i \in 1 .. Len(items) :
                /\ items[i].orderId = orderId
                /\ withProducts =>
                        items[i].product
                            = Referenced(b, "products", items[i].productId)

\* the order carries the customer its customerId names and its own items
OrderWithItsParts(b, order, withProducts) ==
    /\ order.customer = Referenced(b, "customers", order.customerId)
    /\ ItemsOfOrder(b, order.items, order.id, withProducts)

\* C13: the page fetches attach to each page the stored product its productId
\* names; getOrders and getOrder attach the order's customer and exactly the
\* items whose orderId is the order's id; getOrder and getOrderItems attach
\* to each item the product its productId names.
C13_CompositeFetches ==
    \A b \in Backends :
        last.op # "init" /\ IsOk(Returned(b)) =>
            /\ last.op \in {"getCheckoutPage", "getCheckoutPageBySlug"} =>
                    PageWithItsProduct(b, Returned(b).val)
            /\ last.op = "getCheckoutPages" =>
                    \A i \in 1 .. Len(Returned(b).list) :
                        PageWithItsProduct(b, Returned(b).list[i])
            /\ last.op = "getOrders" =>
                    \A i \in 1 .. Len(Returned(b).list) :
                        OrderWithItsParts(b, Returned(b).list[i], FALSE)
            /\ last.op = "getOrder" => OrderWithItsParts(b, Returned(b).val, TRUE)
            /\ last.op = "getOrderItems" =>
                    ItemsOfOrder(b, Returned(b).list, last.args.orderId, TRUE)

\* getOrders returned, from both backends, two orders of which one has an
\* item, each order with its customer
C13_Witness ==
    /\ last.op = "getOrders"
    /\ \A b \in Backends :
        /\ IsOk(Returned(b))
        /\ Len(Returned(b).list) = 2
        /\ \E i, j \in 1 .. 2 :
                /\ Len(Returned(b).list[i].items) = 1
                /\ Len(Returned(b).list[j].items) = 0
        /\ \A i \in 1 .. 2 : Returned(b).list[i].customer # Absent

\* C15: no two stored checkout pages have the same slug, in either backend.
C15_SlugUnique ==
    \A b \in Backends :
        \A x, y \in Entities(b, fb, pg, "checkoutPages") :
            x.slug = y.slug => x.id = y.id

\* getOrderItems, getOrder and getOrders of backend b
GetOrderItemsIn(b, f, p, orderId) ==
    IF b = "firebase" THEN FbGetOrderItems(f, orderId) ELSE PgGetOrderItems(p, orderId)
GetOrderIn(b, f, p, id) ==
    IF b = "firebase" THEN FbGetOrder(f, id) ELSE PgGetOrder(p, id)
GetOrdersIn(b, f, p, userId) ==
    IF b = "firebase" THEN FbGetOrders(f, userId) ELSE PgGetOrders(p, userId)

\* the <<item id, price>> pairs of a sequence of items
PricesIn(items) == {<<items[i].id, items[i].price>> : i \in 1 .. Len(items)}

\* every <<item id, price>> that some getOrderItems, getOrder or getOrders
\* call of backend b returns in the stores f and p
ItemPrices(b, f, p) ==
    LET orderIds == IdsIn(b, f, p, "orders")
        userIds == IdsIn(b, f, p, "users")
    IN  UNION ({PricesIn(r.list) :
                    r \in UNION {GetOrderItemsIn(b, f, p, o) : o \in orderIds}}
               \cup {PricesIn(r.val.items) :
                    r \in UNION {GetOrderIn(b, f, p, o) : o \in orderIds}}
               \cup UNION {{PricesIn(r.list[i].items) : i \in 1 .. Len(r.list)} :
                    r \in UNION {GetOrdersIn(b, f, p, u) : u \in userIds}})

\* C18: the price that getOrderItems, getOrder and getOrders return for a
\* stored order item is the same after every storage call that changes a
\* store as before it.
C18_ItemPriceIsSnapshot ==
    [][fb' # fb \/ pg' # pg =>
        \A b \in Backends :
            /\ ItemPrices(b, fb, pg) \subseteq ItemPrices(b, fb', pg')
            /\ \A x \in ItemPrices(b, fb, pg), y \in ItemPrices(b, fb', pg') :
                    x[1] = y[1] => x[2] = y[2]]_vars

\* getOrderItems returned, from both backends, an item whose price differs
\* from the price its product has now
C18_Witness ==
    /\ last.op = "getOrderItems"
    /\ \A b \in Backends :
        /\ IsOk(Returned(b))
        /\ \E i \in 1 .. Len(Returned(b).list) :
                /\ Returned(b).list[i].product # Absent
                /\ Returned(b).list[i].product.price # Returned(b).list[i].price

(***************************************************************************)
(* The usage count of a coupon: claims C16 and C17, under SpecCoupon.      *)
(***************************************************************************)
\* C16: every stored coupon whose usageLimit is set has usedCount <= usageLimit,
\* in either backend, whatever updateCoupon calls and route calls came before.
C16_UsedCountWithinLimit ==
    \A b \in Backends :
        \A c \in StoredCoupons(b) :
            IsSet(Prop(c, "usageLimit")) => c.usedCount <= c.usageLimit

\* C17: the usedCount of a stored coupon never decreases from one state to
\* the next, in either backend.
C17_UsedCountMonotonic ==
    [][\A b \in Backends :
        \A c \in Entities(b, fb, pg, "coupons") :
            \A d \in Entities(b, fb', pg', "coupons") :
                c.id = d.id => d.usedCount >= c.usedCount]_vars

(***************************************************************************)
(* The store-failure claim C19, under SpecFault.                           *)
(***************************************************************************)
\* the store with the collection coll not created yet
Emptied(db, coll) == [db EXCEPT ![coll] = <<>>]

\* the results of the read `op` of the document backend on a store that
\* reports no error
FbRead(db, op, args) ==
    CASE op = "getProduct" -> {FbGetProduct(db, args.id)}
      [] op = "getProducts" -> FbGetProducts(db, args.userId)
      [] op = "getCheckoutPage" -> {FbGetCheckoutPage(db, args.id)}
      [] op = "getCheckoutPages" -> FbGetCheckoutPages(db, args.userId)
      [] op = "getEmailTemplate" -> {FbGetEmailTemplate(db, args.id)}
      [] op = "getEmailTemplates" -> FbGetEmailTemplates(db, args.userId)
      [] op = "getOrders" -> FbGetOrders(db, args.userId)
      [] op = "getOrder" -> FbGetOrder(db, args.id)
      [] op = "getOrderItems" -> FbGetOrderItems(db, args.orderId)

FaultyReads == {"getProduct", "getProducts", "getCheckoutPage", "getCheckoutPages",
                "getEmailTemplate",
                "getEmailTemplates", "getOrders", "getOrder", "getOrderItems"}

\* C19: a read of the document backend (the get and list methods, getOrder,
\* getOrderItems, getEmailTemplate and the item query of getOrders among them)
\* turns the store's error with code 5 on a collection into the empty result,
\* so it returns what it returns when that collection has no documents; every
\* other error of the store propagates.
C19_NotFoundReadsEmpty ==
    (last.op \in FaultyReads /\ Has(last, "fault")) =>
        \A coll \in FaultyCollections :
            /\ last.fault[coll] = NotFound =>
                    last.fb \in FbRead(Emptied(fb, coll), last.op, last.args)
            /\ last.fault[coll] = Unavailable =>
                    \/ IsErr(last.fb) /\ last.fb.err = Unavailable
                    \/ last.fb \in FbRead(fb, last.op, last.args)

(***************************************************************************)
(* The selector claim C20, under SpecSelect.                               *)
(***************************************************************************)
\* C20: the instance made at module load is the document backend exactly when
\* DATABASE_TYPE is "firebase" at that time, and the relational backend for
\* every other value and for no value; the instance never changes afterwards,
\* whatever the flag becomes, and every storage call is served by it alone.
C20_SelectedOnce ==
    /\ storage = "firebase" <=> env = "firebase"
    /\ [][/\ storage' = storage
          /\ fb' # fb => storage = "firebase" /\ last'.served = "firebase"
          /\ pg' # pg => storage = "postgres" /\ last'.served = "postgres"
          /\ last' # last => last'.served = storage]_vars

\* the flag was set to "firebase" after a load without it, and the relational
\* backend went on to store a product while the document store stayed empty
C20_Witness ==
    /\ env = "firebase"
    /\ storage = "postgres"
    /\ last.op = "createProduct"
    /\ last.served = "postgres"
    /\ IsOk(last.res)
    /\ pg["products"] # {}
    /\ fb["products"] = <<>>

(***************************************************************************)
(* The composite-fetch claim C21, under SpecFault.                         *)
(***************************************************************************)
CompositeReads == {"getCheckoutPages", "getOrders", "getOrder", "getOrderItems"}

\* C21: a composite fetch is all or nothing: while the store fails on a
\* collection, getCheckoutPages, getOrders, getOrder and getOrderItems either
\* fail or return what they return from a store that works, so no parent
\* misses a stored child and no list is empty while the owner has parents.
C21_CompositeAllOrNothing ==
    (last.op \in CompositeReads /\ Has(last, "fault")) =>
        \/ IsErr(last.fb)
        \/ last.fb \in FbRead(fb, last.op, last.args)

(***************************************************************************)
(* The timestamp claim C22, under SpecDates.                               *)
(***************************************************************************)
\* the field f of the entity e holds a Date or null
IsDateOrNull(e, f) == Has(e, f) /\ (e[f] = Null \/ e[f] \in 0 .. MaxTime + 1)

\* an order as a read returns it: its createdAt and the tokenExpiresAt of each
\* of its items are Dates or null
OrderDatesConverted(order) ==
    /\ IsDateOrNull(order, "createdAt")
    /\ \A i \in 1 .. Len(order.items) : IsDateOrNull(order.items[i], "tokenExpiresAt")

\* C22: the document backend converts every timestamp field of every entity a
\* read returns to a Date, or to null when the stored value is absent or null:
\* the createdAt of an order and the tokenExpiresAt of each item, the items
\* that getOrders attaches among them.
C22_TimestampsConverted ==
    (last.op \in {"getOrders", "getOrder", "getOrderItems"} /\ IsOk(last.fb)) =>
        /\ last.op = "getOrders" =>
                \A i \in 1 .. Len(last.fb.list) : OrderDatesConverted(last.fb.list[i])
        /\ last.op = "getOrder" => OrderDatesConverted(last.fb.val)
        /\ last.op = "getOrderItems" =>
                \A i \in 1 .. Len(last.fb.list) :
                    IsDateOrNull(last.fb.list[i], "tokenExpiresAt")

(***************************************************************************)
(* The concurrency claims C23 and C25, under SpecRace.                     *)
(***************************************************************************)
\* the calls of kind op that have returned or thrown
Finished(op) == {p \in Procs : calls[p].op = op /\ calls[p].pc = "done"}

\* the entity returned holds its owner and every field of the partial
FullyMerged(call) ==
    /\ IsOk(call.res)
    /\ Has(call.res.val, "userId")
    /\ \A k \in DOMAIN call.data : Has(call.res.val, k) /\ call.res.val[k] = call.data[k]

\* C23: in the document backend an update<Entity>(id, partial) that runs
\* while another process deletes the same id returns the fully merged entity
\* or 'not found'; it never throws and never returns a partial entity.
C23_UpdateOrNotFound ==
    \A p \in Finished("update") :
        calls[p].res = Absent \/ FullyMerged(calls[p])

\* C25: of two concurrent delete<Entity>(id) calls on the same stored id,
\* one returns true and the other returns false, in both backends: no two
\* calls return true for one id, and an id whose delete returned a boolean
\* is stored no longer.
C25_OneDeleteWins ==
    \A p \in Finished("delete") :
        /\ \A q \in Finished("delete") \ {p} :
              (calls[p].coll = calls[q].coll /\ calls[p].id = calls[q].id) =>
                  ~(calls[p].res = Deleted(True) /\ calls[q].res = Deleted(True))
        /\ IsOk(calls[p].res) =>
              calls[p].id \notin IdsIn(storage, fb, pg, calls[p].coll)

(***************************************************************************)
(* The sign-in claim C24, under SpecSignIn.                                *)
(***************************************************************************)
\* the ids of the stored users with the email, in the backend b
UsersWithEmail(b, email) ==
    IF b = "firebase"
    THEN {id \in DOMAIN fb["users"] : Prop(fb["users"][id], "email") = email}
    ELSE {r.id : r \in {u \in pg["users"] : u.email = email}}

\* C24: for any interleaving of requests that each run getCurrentUserId, at
\* most one user with the demo email is ever stored, every request resolves
\* to the same user id, and no request fails.
C24_OneDemoUser ==
    /\ Cardinality(UsersWithEmail(storage, DemoEmail)) <= 1
    /\ \A p \in Finished("getCurrentUserId") :
        /\ IsOk(calls[p].res)
        /\ \A q \in Finished("getCurrentUserId") :
              IsOk(calls[q].res) => calls[q].res.val = calls[p].res.val

(***************************************************************************)
(* The identity claim C26, under SpecIdentity.                             *)
(***************************************************************************)
\* get<Entity>(id) of backend b for the kind a call is about
GetEntity(b, op, id) ==
    IF op \in {"getProduct", "getProducts"}
    THEN (IF b = "firebase" THEN FbGetProduct(fb, id) ELSE PgGetProduct(pg, id))
    ELSE (IF b = "firebase" THEN FbGetEmailTemplate(fb, id)
          ELSE PgGetEmailTemplate(pg, id))

\* C26: after any creates and updates, updates whose partial carries an id
\* among them, the entity get<Entity>(id) returns has the requested id, and
\* every entity of a listing is returned again by get<Entity> for the id it
\* carries.
C26_IdentityStable ==
    \A b \in Backends :
        /\ (last.op \in {"getProduct", "getEmailTemplate"} /\ IsOk(Returned(b))) =>
                Returned(b).val.id = last.args.id
        /\ (last.op \in {"getProducts", "getEmailTemplates"} /\ IsOk(Returned(b))) =>
                \A i \in 1 .. Len(Returned(b).list) :
                    LET got == GetEntity(b, last.op, Returned(b).list[i].id)
                    IN  IsOk(got) /\ got.val.id = Returned(b).list[i].id

(***************************************************************************)
(* The round-trip claim C27, under SpecRoundTrip.                          *)
(***************************************************************************)
\* get<Entity>(id) of backend b for the kind a create is about
GetCreated(b, op, id) ==
    IF op = "createProduct"
    THEN (IF b = "firebase" THEN FbGetProduct(fb, id) ELSE PgGetProduct(pg, id))
    ELSE (IF b = "firebase" THEN FbGetCustomer(fb, id) ELSE PgGetCustomer(pg, id))

\* equal on every field; a field that is missing reads as undefined
EqualOnEveryField(x, y) == \A k \in DOMAIN x \cup DOMAIN y : Prop(x, k) = Prop(y, k)

\* C27: the entity create<Entity>(input) returns, for an input that carries
\* its own id or createdAt too, has an id under which it is stored, and
\* get<Entity>(returned.id) right after the create returns an entity equal to
\* it on every field.
C27_CreateGetRoundTrip ==
    last.op \in {"createProduct", "createCustomer"} =>
        \A b \in Backends :
            IsOk(Returned(b)) =>
                LET got == GetCreated(b, last.op, Returned(b).val.id)
                IN  IsOk(got) /\ EqualOnEveryField(got.val, Returned(b).val)

(***************************************************************************)
(* The response claim C28, under SpecRoutes.                               *)
(***************************************************************************)
ByIdRoutes == {"GET /api/products/:id", "PATCH /api/products/:id",
               "DELETE /api/products/:id", "GET /api/orders/:id"}
\* the status a route answers a successful storage call with
SuccessOf(op) ==
    CASE op = "POST /api/products" -> 201
      [] op = "DELETE /api/products/:id" -> 204
      [] OTHER -> 200

ProductBefore(b, id) == StGetProduct(b, StoreOf(b), id)
ProductAfter(b, id) == StGetProduct(b, StoreOf(b)', id)

\* C29: a product created through POST /api/products carries the userId of
\* the current user whatever userId the body names, and a PATCH or DELETE
\* route call neither changes nor removes a product whose userId differs from
\* the current user's id, nor changes the userId of any product.
C29_OwnerScoped ==
    [][/\ last'.op = "POST /api/products" =>
            \A b \in Backends :
                ReturnedNext(b).outcome = "ok" =>
                    LET created == ReturnedNext(b).sent[1].body
                    IN  /\ created.userId \in DemoUserIds(b)'
                        /\ ProductAfter(b, created.id) = Ok(created)
       /\ last'.op \in {"PATCH /api/products/:id", "DELETE /api/products/:id"} =>
            \A b \in Backends, id \in ProductIds :
                IsOk(ProductBefore(b, id)) =>
                    /\ ProductBefore(b, id).val.userId \notin DemoUserIds(b) =>
                            ProductAfter(b, id) = ProductBefore(b, id)
                    /\ IsOk(ProductAfter(b, id)) =>
                            ProductAfter(b, id).val.userId = ProductBefore(b, id).val.userId]_vars

(***************************************************************************)
(* The initialisation claim C30, under SpecFirestore.                      *)
(***************************************************************************)
InitialisationCalls == {"initializeFirebase", "getFirestore"}

\* C30: after every call firebaseApp is non-null only if firestoreDb is
\* non-null; getFirestore never returns null; once an initialisation has
\* succeeded a later initializeFirebase or getFirestore call returns the same
\* instances and creates no app; and a call that throws leaves both module
\* variables null.
C30_InitialisedOnceConsistently ==
    [][/\ firebaseApp' # Null => firestoreDb' # Null
       /\ last'.op = "getFirestore" /\ IsOk(last'.res) => last'.res.val # Null
       /\ last'.op \in InitialisationCalls /\ firebaseApp # Null /\ firestoreDb # Null =>
            /\ <<firebaseApp', firestoreDb', adminApps'>> = <<firebaseApp, firestoreDb, adminApps>>
            /\ last'.res = IF last'.op = "getFirestore" THEN Ok(firestoreDb)
                           ELSE Ok([app |-> firebaseApp, db |-> firestoreDb])
       /\ last'.op \in InitialisationCalls /\ IsErr(last'.res) =>
            firebaseApp' = Null /\ firestoreDb' = Null]_vars
====
